---- MODULE Spec2Model ----
(***************************************************************************)
(* A model of remcp / remcp-serv: the admission gate and per-connection    *)
(* workers of the server (remcp-serv/src/main.rs), the client's retry      *)
(* loop and GET/PUT attempts (remcp/src/main.rs) and the response decoder  *)
(* (shared_lib/src/err_utils.rs).                                          *)
(*                                                                         *)
(* Text is modelled as a sequence of whitespace-separated words: a line    *)
(* `ERR Server is busy` is <<"ERR", "Server", "is", "busy">>.  Numbers in  *)
(* lines are their decimal strings (FmtNum / ParseNum).                    *)
(***************************************************************************)
EXTENDS Integers, Sequences, FiniteSets, TLC

(***************************************************************************)
(* Bounds of the model.                                                    *)
(***************************************************************************)
\* connections that reach the listener in Spec
NConn == 6
\* connections the client opens in SpecXfer (one per attempt)
MaxConn == 3
\* connections of arbitrary peers in SpecRaw
MaxRaw == 1
\* invocations of the client (remcp runs) in SpecXfer
MaxRuns == 2
\* length of the longest file transferred
MaxFileLen == 3
\* calls of determine_offset_and_part_path in SpecPath
MaxCalls == 3
\* units a peer acting as server may have sent ahead of the client's reads
MaxUnread == 1
\* units a peer acting as server sends on one connection
MaxResp == 3

(***************************************************************************)
(* Program constants.                                                      *)
(***************************************************************************)
\* remcp/src/main.rs:9
MAX_RETRIES == 5
\* remcp/src/main.rs:74 and 92: thread::sleep(Duration::from_secs(5))
BACKOFF_SECS == 5
\* the configured values the model starts the server with: the defaults
\* (256 bytes/s, 5 clients) and small ones, 0 included (both are parsed
\* from the command line as usize)
Configs ==
    { [rate |-> 256, max |-> 5], [rate |-> 3, max |-> 2],
      [rate |-> 0, max |-> 1], [rate |-> 1, max |-> 0] }

VARIABLES
    \* ---- server process state (remcp-serv/src/main.rs:9-11)
    rate,        \* TRANSFER_RATE
    maxClients,  \* MAX_CLIENTS
    active,      \* ACTIVE_CLIENTS
    \* ---- the accept loop and its workers, Spec
    gpc,         \* accept loop: "accept" | "check" | "spawn" | "down"
    gcur,        \* current_clients, the value the accept loop loaded
    gconn,       \* the connection the accept loop is handling (0: none yet)
    gst,         \* per connection: "new" | "rejected" | "admitted" |
                 \*   "running" | "returned" | "done"
    gres,        \* per connection: handle_client's result "none" | "ok" | "err"
    ginc,        \* per connection: fetch_add executed for it (count)
    gdec,        \* per connection: fetch_sub executed for it (count)
    gout,        \* per connection: lines the accept loop wrote to it
    grej,        \* per connection: the accept loop took the busy branch for it
    gnext        \* the last NEXT line announced by a worker:
                 \*   [any |-> one was, n |-> its chunk size, act |-> the active
                 \*    count calculate_chunk_size loaded]
VARIABLES
    \* ---- try_operation with an arbitrary operation, SpecRetry
    tpc,         \* "start" (loop top) | "op" (operation running) |
                 \*   "sleep" (about to back off) | "done" (returned)
    tattempt,    \* attempt
    touts,       \* the outcomes of the attempts made so far, in order
    tsleeps,     \* the backoffs slept so far, in seconds, in order
    tres         \* what try_operation returned: "none" | "ok" | "err"

srvVars == <<rate, maxClients, active>>
gateVars == <<gpc, gcur, gconn, gst, gres, ginc, gdec, gout, grej, gnext>>
VARIABLES
    \* ---- file systems
    lfile,       \* client: the local file of a PUT and of a GET
                 \*   [PUT |-> the source, GET |-> the download target]
    pfile,       \* client: the partial (.part) file beside each local file
    rfs,         \* server: the files, by path
    rfs0,        \* server: the files when the model starts (never changes)
    lpath,       \* client: the local path of the PUT and of the GET, as
                 \*   [dir, stem, ext] (command-line arguments, never change)
    probe,       \* a function called on its own, with the calls made.
                 \*   SpecPath, determine_offset_and_part_path: [p, q (two
                 \*    local paths), fs (the local files by path), calls
                 \*    (path, the partial file as it was, the pair returned)]
                 \*   SpecRate, rate_limit: [b (the bytes of the chunk just
                 \*    transferred, 0 when none), calls (the bytes, the
                 \*    active count at the call, the delay in ms)]
                 \*   SpecFrame, the request line: [op, path (the remote path
                 \*    as its words), offset, total, line (the line written,
                 \*    <<>> before), parsed (what the server made of it)]
                 \*   SpecDecode, the response decoders: [err (the error the
                 \*    server reports), line (the line written for it, <<>>
                 \*    before), calls (decoder, the error it returned)]
    \* ---- the client process remcp, SpecXfer
    cl,          \* the running invocation: its position and locals
    runs,        \* the invocations that ended so far: [op, res ("ok", "fail",
                 \*   "killed"), err, wrote (payload bytes it wrote to sockets)]
    nconn,       \* connections opened so far
    \* ---- connections and their server-side workers
    conn         \* per connection: both directions' streams, the closes and
                 \*   the worker's position and locals

retryVars == <<tpc, tattempt, touts, tsleeps, tres>>
fsVars == <<lfile, pfile, rfs>>
xferVars == <<fsVars, rfs0, lpath, probe, cl, runs, nconn, conn>>
vars == <<srvVars, gateVars, retryVars, xferVars>>

Max(a, b) == IF a >= b THEN a ELSE b
Min(a, b) == IF a <= b THEN a ELSE b

(***************************************************************************)
(* shared_lib/src/err_utils.rs: GetError and its Display.                  *)
(***************************************************************************)
InvalidCommand == [kind |-> "InvalidCommand", detail |-> <<>>]
MissingArguments == [kind |-> "MissingArguments", detail |-> <<>>]
UnknownCommand == [kind |-> "UnknownCommand", detail |-> <<>>]
ServerBusy == [kind |-> "ServerBusy", detail |-> <<>>]
FileError(d) == [kind |-> "FileError", detail |-> d]
Other(d) == [kind |-> "Other", detail |-> d]

\* impl fmt::Display for GetError
Display(err) ==
    CASE err.kind = "InvalidCommand" -> <<"Invalid", "command">>
      [] err.kind = "MissingArguments" -> <<"Missing", "arguments">>
      [] err.kind = "FileError" -> <<"File", "error:">> \o err.detail
      [] err.kind = "UnknownCommand" -> <<"Unknown", "command">>
      [] err.kind = "ServerBusy" -> <<"Server", "is", "busy">>
      [] OTHER -> <<"Other", "error:">> \o err.detail

\* send_error: writeln!(writer, "ERR {}", err)
ErrLine(err) == <<"ERR">> \o Display(err)

(***************************************************************************)
(* Rate Controller (remcp-serv/src/main.rs:20-36).                         *)
(***************************************************************************)
\* the share without its floor of one byte
calculate_chunk_size_no_floor(act) ==
    IF act = 0 THEN rate ELSE rate \div act

calculate_chunk_size_roundup(act) ==
    IF act = 0 THEN rate ELSE Max(1, (rate + act - 1) \div act)

\* calculate_chunk_size(), `act` being the value ACTIVE_CLIENTS.load returned
calculate_chunk_size(act) ==
    IF act = 0 THEN rate ELSE Max(1, rate \div act)

\* the delay without the division among the active clients
rate_limit_whole_rate(bytes_read, act) ==
    IF act > 0 THEN (bytes_read * 1000) \div Max(1, rate) ELSE 0

\* rate_limit(bytes_read): the milliseconds slept, `act` being the value
\* ACTIVE_CLIENTS.load returned; no sleep when it is 0
rate_limit(bytes_read, act) ==
    IF act > 0 THEN (bytes_read * 1000) \div Max(1, rate \div act) ELSE 0

\* the --transfer-rate values and the chunk lengths followed
Rates == {0, 1, 3, 7, 256}
ChunkBytes == {1, 2, 3, 7}

\* main's accept loop admits a client: ACTIVE_CLIENTS.fetch_add(1)
ClientConnected ==
    /\ active < maxClients
    /\ active' = active + 1
    /\ UNCHANGED <<rate, maxClients, gateVars, retryVars, xferVars>>

\* another handler returns: ACTIVE_CLIENTS.fetch_sub(1).  The handler
\* followed stays counted from before it starts until after it returns.
ClientDisconnected ==
    /\ active > 1
    /\ active' = active - 1
    /\ UNCHANGED <<rate, maxClients, gateVars, retryVars, xferVars>>

\* the handler followed transfers a chunk: at most calculate_chunk_size()
\* bytes, at least 1 (a read of 0 bytes leaves the loop)
TransferChunk(b) ==
    /\ probe.b = 0
    /\ Len(probe.calls) < MaxCalls
    /\ b >= 1 /\ b <= calculate_chunk_size(active)
    /\ probe' = [probe EXCEPT !.b = b]
    /\ UNCHANGED <<srvVars, gateVars, retryVars, fsVars, rfs0, lpath, cl, runs,
                   nconn, conn>>

\* then it calls rate_limit(bytes_read), which loads ACTIVE_CLIENTS now
RateLimit ==
    /\ probe.b > 0
    /\ probe' = [ b |-> 0,
                  calls |-> Append(probe.calls,
                                   [ b |-> probe.b, act |-> active,
                                     delay |-> rate_limit(probe.b, active) ]) ]
    /\ UNCHANGED <<srvVars, gateVars, retryVars, fsVars, rfs0, lpath, cl, runs,
                   nconn, conn>>

(***************************************************************************)
(* The client's retry loop, try_operation (remcp/src/main.rs:43-106).      *)
(*                                                                         *)
(* An io::Error is [class, msg, os]: msg is e.to_string() as words, os is  *)
(* e.raw_os_error() (0 for None).  The code reads msg and os; class says   *)
(* what the failure was and is read by the claims only.                    *)
(***************************************************************************)
NoErr == [class |-> "none", msg |-> <<>>, os |-> 0]

\* io::Error::new(kind, message): raw_os_error() is None
Custom(class, words) == [class |-> class, msg |-> words, os |-> 0]

\* an error of the operating system: "<description> (os error <code>)"
OsError(class, words, code) ==
    [class |-> class, msg |-> words \o <<"(os", "error", "code)">>, os |-> code]

\* str::contains on words: pat occurs in s as a contiguous run
Contains(s, pat) ==
    \E i \in 0..(Len(s) - Len(pat)) : SubSeq(s, i + 1, i + Len(pat)) = pat

\* e.to_string().contains("Server is busy")
IsBusyMsg(e) == Contains(e.msg, <<"Server", "is", "busy">>)

RetryableOsAlsoRefused(code) == code \in {10054, 104, 110, 111}

\* the match arm `10054 | 104 | 110`
RetryableOs(code) == code \in {10054, 104, 110}

RetriesExhaustedOffByOne(attempt) == attempt > MAX_RETRIES

\* `if attempt >= MAX_RETRIES`
RetriesExhausted(attempt) == attempt >= MAX_RETRIES

TryDecideTransportUnbounded(isOk, e, attempt) ==
    IF isOk THEN "ok"
    ELSE IF IsBusyMsg(e)
      THEN (IF RetriesExhausted(attempt) THEN "fail" ELSE "retry")
    ELSE IF e.os # 0 /\ RetryableOs(e.os) THEN "retry"
    ELSE "fail"

\* the match on the operation's result (lines 56-104): "ok" and "fail"
\* return, "retry" sleeps and loops
TryDecide(isOk, e, attempt) ==
    IF isOk THEN "ok"
    ELSE IF IsBusyMsg(e)
      THEN (IF RetriesExhausted(attempt) THEN "fail" ELSE "retry")
    ELSE IF e.os # 0
      THEN (IF RetryableOs(e.os)
              THEN (IF RetriesExhausted(attempt) THEN "fail" ELSE "retry")
              ELSE "fail")
    ELSE "fail"

\* what an attempt (do_get, do_put) can end with: Ok, or one of the errors
\* the two functions build or pass on from the sockets and the file system
OkOutcome == [ok |-> TRUE, err |-> NoErr]
Failed(e) == [ok |-> FALSE, err |-> e]
OpErrors ==
    { Custom("busy", <<"Server", "is", "busy">>),
      Custom("server_file",
             <<"Other", "error:", "File", "error:", "No", "such", "file">>),
      Custom("server_reject", <<"Missing", "arguments">>),
      Custom("protocol", <<"Unexpected", "'NEXT'", "in", "GET">>),
      Custom("protocol", <<"Server", "closed", "connection">>),
      OsError("reset", <<"Connection", "reset", "by", "peer">>, 104),
      OsError("reset", <<"Connection", "reset", "by", "peer">>, 10054),
      OsError("timeout", <<"Connection", "timed", "out">>, 110),
      OsError("timeout", <<"Connection", "timed", "out">>, 10060),
      OsError("refused", <<"Connection", "refused">>, 111),
      OsError("local_file", <<"No", "such", "file", "or", "directory">>, 2),
      OsError("local_file", <<"Permission", "denied">>, 13) }
OpOutcomes == {OkOutcome} \cup {Failed(e) : e \in OpErrors}

RetryIdle ==
    /\ tpc = "idle"
    /\ tattempt = 0
    /\ touts = <<>>
    /\ tsleeps = <<>>
    /\ tres = "none"

InitTry ==
    /\ tpc = "start"
    /\ tattempt = 0
    /\ touts = <<>>
    /\ tsleeps = <<>>
    /\ tres = "none"

\* loop { attempt += 1; ... operation(&paths)
TryBegin ==
    /\ tpc = "start"
    /\ tattempt' = tattempt + 1
    /\ tpc' = "op"
    /\ UNCHANGED <<xferVars, srvVars, gateVars, touts, tsleeps, tres>>

\* the operation returns `o`; the match decides
TryOpReturn(o) ==
    /\ tpc = "op"
    /\ touts' = Append(touts, o)
    /\ LET d == TryDecide(o.ok, o.err, tattempt)
       IN /\ tpc' = IF d = "retry" THEN "sleep" ELSE "done"
          /\ tres' = CASE d = "ok" -> "ok" [] d = "fail" -> "err" [] OTHER -> tres
    /\ UNCHANGED <<xferVars, srvVars, gateVars, tattempt, tsleeps>>

\* thread::sleep(Duration::from_secs(5)), then the next iteration
TrySleep ==
    /\ tpc = "sleep"
    /\ tsleeps' = Append(tsleeps, BACKOFF_SECS)
    /\ tpc' = "start"
    /\ UNCHANGED <<xferVars, srvVars, gateVars, tattempt, touts, tres>>

(***************************************************************************)
(* The accept loop of the server's main (remcp-serv/src/main.rs:282-307)   *)
(* and the worker threads it spawns.  The handler's transfer is abstracted *)
(* here to its turns (a NEXT line each) and its return of Ok or Err.       *)
(***************************************************************************)
GConn == 1..NConn

AdmissionFullOffByOne(cur) == cur > maxClients

\* the test `current_clients >= unsafe { MAX_CLIENTS }`
AdmissionFull(cur) == cur >= maxClients

InitSrv ==
    /\ \E cfg \in Configs : rate = cfg.rate /\ maxClients = cfg.max
    /\ active = 0

InitGate ==
    /\ gpc = "accept"
    /\ gcur = 0
    /\ gconn = 0
    /\ gst = [c \in GConn |-> "new"]
    /\ gres = [c \in GConn |-> "none"]
    /\ ginc = [c \in GConn |-> 0]
    /\ gdec = [c \in GConn |-> 0]
    /\ gout = [c \in GConn |-> <<>>]
    /\ grej = [c \in GConn |-> FALSE]
    /\ gnext = [any |-> FALSE, n |-> 0, act |-> 0]

GateIdle ==
    /\ gpc = "down"
    /\ gcur = 0
    /\ gconn = 0
    /\ gst = [c \in GConn |-> "new"]
    /\ gres = [c \in GConn |-> "none"]
    /\ ginc = [c \in GConn |-> 0]
    /\ gdec = [c \in GConn |-> 0]
    /\ gout = [c \in GConn |-> <<>>]
    /\ grej = [c \in GConn |-> FALSE]
    /\ gnext = [any |-> FALSE, n |-> 0, act |-> 0]

\* listener.incoming() yields the next stream; ACTIVE_CLIENTS.load
Accept ==
    /\ gpc = "accept"
    /\ gconn < NConn
    /\ gconn' = gconn + 1
    /\ gcur' = active
    /\ gpc' = "check"
    /\ UNCHANGED <<xferVars, retryVars, srvVars, gst, gres, ginc, gdec, gout, grej, gnext>>

RejectThenSpawn ==
    /\ gpc = "check"
    /\ AdmissionFull(gcur)
    /\ grej' = [grej EXCEPT ![gconn] = TRUE]
    /\ gout' = [gout EXCEPT ![gconn] = Append(@, ErrLine(ServerBusy))]
    /\ gst' = [gst EXCEPT ![gconn] = "running"]
    /\ gpc' = "accept"
    /\ UNCHANGED <<xferVars, retryVars, srvVars, gcur, gconn, gres, ginc, gdec, gnext>>

\* the busy branch: send_error(&mut writer, GetError::ServerBusy)?; continue
Reject ==
    /\ gpc = "check"
    /\ AdmissionFull(gcur)
    /\ grej' = [grej EXCEPT ![gconn] = TRUE]
    /\ gst' = [gst EXCEPT ![gconn] = "rejected"]
    /\ \/ /\ gout' = [gout EXCEPT ![gconn] = Append(@, ErrLine(ServerBusy))]
          /\ gpc' = "accept"
       \/ \* the write or the flush fails: `?` returns the error from main
          /\ gout' = gout
          /\ gpc' = "down"
    /\ UNCHANGED <<xferVars, retryVars, srvVars, gcur, gconn, gres, ginc, gdec, gnext>>

\* ACTIVE_CLIENTS.fetch_add(1)
Admit ==
    /\ gpc = "check"
    /\ ~AdmissionFull(gcur)
    /\ active' = active + 1
    /\ ginc' = [ginc EXCEPT ![gconn] = @ + 1]
    /\ gst' = [gst EXCEPT ![gconn] = "admitted"]
    /\ gpc' = "spawn"
    /\ UNCHANGED <<xferVars, retryVars, rate, maxClients, gcur, gconn, gres, gdec, gout, grej, gnext>>

\* thread::spawn(move || { ... })
Spawn ==
    /\ gpc = "spawn"
    /\ gst' = [gst EXCEPT ![gconn] = "running"]
    /\ gpc' = "accept"
    /\ UNCHANGED <<xferVars, retryVars, srvVars, gcur, gconn, gres, ginc, gdec, gout, grej, gnext>>

\* A worker runs only while the process does: when main returns (gpc is
\* "down") the process exits and its threads end with it.
\* one turn of a transfer loop (handle_get 73-75, handle_put 136-138):
\* calculate_chunk_size(); writeln!(writer, "NEXT {}", chunk_size)
HandlerNext(c) ==
    /\ gst[c] = "running"
    /\ gpc # "down"
    /\ gnext' = [any |-> TRUE, n |-> calculate_chunk_size(active), act |-> active]
    /\ UNCHANGED <<xferVars, retryVars, srvVars, gpc, gcur, gconn, gst, gres, ginc, gdec, gout, grej>>

\* handle_client returns Ok(()) or Err(e); the worker ignores which
HandlerReturn(c, res) ==
    /\ gst[c] = "running"
    /\ gpc # "down"
    /\ gst' = [gst EXCEPT ![c] = "returned"]
    /\ gres' = [gres EXCEPT ![c] = res]
    /\ UNCHANGED <<xferVars, retryVars, srvVars, gpc, gcur, gconn, ginc, gdec, gout, grej, gnext>>

DecrementOnOkOnly(c) ==
    /\ gst[c] = "returned"
    /\ gpc # "down"
    /\ gst' = [gst EXCEPT ![c] = "done"]
    /\ IF gres[c] = "ok"
         THEN /\ active' = active - 1
              /\ gdec' = [gdec EXCEPT ![c] = @ + 1]
         ELSE UNCHANGED <<active, gdec>>
    /\ UNCHANGED <<xferVars, retryVars, rate, maxClients, gpc, gcur, gconn, gres, ginc, gout, grej, gnext>>

\* ACTIVE_CLIENTS.fetch_sub(1) after `let _ = handle_client(stream);`
Decrement(c) ==
    /\ gst[c] = "returned"
    /\ gpc # "down"
    /\ gst' = [gst EXCEPT ![c] = "done"]
    /\ active' = active - 1
    /\ gdec' = [gdec EXCEPT ![c] = @ + 1]
    /\ UNCHANGED <<xferVars, retryVars, rate, maxClients, gpc, gcur, gconn, gres, ginc, gout, grej, gnext>>

\* every connection handled on the one thread of the accept loop: a worker
\* steps only while no other is paused
RunnableOnOneThread(c) ==
    /\ gst[c] = "running"
    /\ \A d \in GConn : gst[d] \notin {"sleeping", "blocked"}

\* the worker of connection c can take a step: it is a thread of its own
\* (thread::spawn per admitted connection), not paused, in a live process
Runnable(c) == gst[c] = "running"

\* a turn of a transfer loop up to its delay: the NEXT line, the chunk, and
\* rate_limit's thread::sleep, in which the worker stays for a while
HandlerSleep(c) ==
    /\ Runnable(c)
    /\ gpc # "down"
    /\ gnext' = [any |-> TRUE, n |-> calculate_chunk_size(active), act |-> active]
    /\ gst' = [gst EXCEPT ![c] = "sleeping"]
    /\ UNCHANGED <<xferVars, retryVars, srvVars, gpc, gcur, gconn, gres, ginc, gdec, gout, grej>>

\* the worker waits in a read or a write of its own socket or file
HandlerBlock(c) ==
    /\ Runnable(c)
    /\ gpc # "down"
    /\ gst' = [gst EXCEPT ![c] = "blocked"]
    /\ UNCHANGED <<xferVars, retryVars, srvVars, gpc, gcur, gconn, gres, ginc, gdec, gout, grej, gnext>>

\* the sleep ends, or the read or write returns
HandlerResume(c) ==
    /\ gst[c] \in {"sleeping", "blocked"}
    /\ gpc # "down"
    /\ gst' = [gst EXCEPT ![c] = "running"]
    /\ UNCHANGED <<xferVars, retryVars, srvVars, gpc, gcur, gconn, gres, ginc, gdec, gout, grej, gnext>>

\* handle_client returns Ok(()) or Err(e) from a worker that is not paused
HandlerReturnRunnable(c, res) == Runnable(c) /\ HandlerReturn(c, res)

(***************************************************************************)
(* Files and streams of the transfer model.                                *)
(***************************************************************************)
NoFile == [ex |-> FALSE, data |-> <<>>]
FileOf(d) == [ex |-> TRUE, data |-> d]

\* the bytes of the file the user transfers, and of a file that is already
\* at the server's path
Content == <<1, 2, 3, 4, 5, 6, 7, 8, 9>>
OldContent == <<7, 8, 9>>
Zeros(n) == SubSeq(<<0, 0, 0, 0, 0, 0, 0, 0, 0, 0>>, 1, n)
Prefix(d, n) == SubSeq(d, 1, Min(n, Len(d)))

\* seek(SeekFrom::Start(pos)) followed by write_all(b): bytes pos+1.. are
\* overwritten, the file grows when the write ends beyond its end, the gap
\* left by a seek beyond the end reads as zeros, and nothing is truncated
WriteAt(d, pos, b) ==
    IF Len(b) = 0 THEN d
    ELSE LET base == IF Len(d) >= pos THEN d ELSE d \o Zeros(pos - Len(d))
         IN SubSeq(base, 1, pos) \o b \o SubSeq(base, pos + Len(b) + 1, Len(base))

\* decimal numbers in lines: format!("{}", n) and str::parse::<usize>
NumStr == <<"0", "1", "2", "3", "4", "5", "6", "7", "8", "9", "10", "11", "12">>
FmtNum(n) == NumStr[n + 1]
IsNum(w) == \E i \in 1..Len(NumStr) : NumStr[i] = w
NumOf(w) == (CHOOSE i \in 1..Len(NumStr) : NumStr[i] = w) - 1
\* parts[i].parse().unwrap_or(0)
ParseNumOr0(w) == IF IsNum(w) THEN NumOf(w) ELSE 0

\* str::to_uppercase on the verbs of the model
ToUpper(w) ==
    CASE w = "get" -> "GET"
      [] w = "put" -> "PUT"
      [] w = "foo" -> "FOO"
      [] OTHER -> w

\* what travels on a connection: text lines (a line is its words) and bytes
LineU(w) == [t |-> "line", w |-> w, b |-> 0]
ByteU(b) == [t |-> "byte", w |-> <<>>, b |-> b]
BytesU(d) == <<>> \o [i \in 1..Len(d) |-> ByteU(d[i])]
UnitsData(us) == <<>> \o [i \in 1..Len(us) |-> us[i].b]
\* read_line on a unit: a line gives its words
LineOf(u) == IF u.t = "line" THEN u.w ELSE <<"?">>

\* the paths of the server's directory, the one the client names
RPaths == {"remote", "other"}
RemotePath == "remote"

(***************************************************************************)
(* Connections.  c2s and s2c are everything written in each direction;     *)
(* srd and crd count the units the server and the client have read.        *)
(*                                                                         *)
(* TCP as the model has it: data written before a close stays readable     *)
(* after it and is followed by end-of-file; closing a socket that holds    *)
(* unread data may reset the connection instead; a write to a connection   *)
(* the peer closed is accepted and resets it; on a reset connection writes  *)
(* fail and a read fails or still returns data that had arrived.           *)
(***************************************************************************)
XConn == 1..MaxConn

FreeConn ==
    [ st |-> "free", c2s |-> <<>>, srd |-> 0, s2c |-> <<>>, crd |-> 0,
      cclosed |-> FALSE, sclosed |-> FALSE, rst |-> FALSE,
      cmd |-> "", path |-> "", offset |-> 0, filesize |-> -1, pos |-> 0,
      tot |-> 0, cnt |-> 0, chunk |-> 0,
      res |-> "none", got |-> "none", first |-> <<>>, fsop |-> FALSE ]

\* whether a close resets the connection: it can when data is unread
ResetOnClose(unread) == IF unread THEN {TRUE, FALSE} ELSE {FALSE}

\* the server writes units and flushes; the caller has checked ~r.rst
SrvPut(r, us) == [r EXCEPT !.s2c = @ \o us, !.rst = r.cclosed]

\* handle_client returns res and its stream is dropped
SrvRet(r, res, b) ==
    [r EXCEPT !.st = "h_ret", !.res = res, !.sclosed = TRUE, !.rst = @ \/ b]

SrvUnread(r) == r.srd < Len(r.c2s)

\* write a line, flush and return okres; a failed write returns Err (`?`)
SrvReplyRet(r, line, okres, b) ==
    IF r.rst THEN SrvRet(r, "err", b)
    ELSE SrvRet(SrvPut(r, <<LineU(line)>>), okres, b)

\* std::io::Error of File::open on a path that does not exist
NotFoundWords == <<"No", "such", "file", "or", "directory", "(os", "error", "2)">>

(***************************************************************************)
(* The server's connection handler (remcp-serv/src/main.rs:38-226).        *)
(***************************************************************************)
GetReplyErrBeyondEnd(fsize, offset) ==
    IF offset > fsize THEN ErrLine(InvalidCommand)
    ELSE <<"OK", FmtNum(fsize - offset)>>

GetReplyWholeSize(fsize, offset) == <<"OK", FmtNum(fsize)>>

\* handle_get's first line for a file that opened, of size fsize
GetReply(fsize, offset) ==
    IF offset >= fsize THEN <<"OK", "0">>
    ELSE <<"OK", FmtNum(fsize - offset)>>

DispatchNoVerbCheck(parts) ==
    IF Len(parts) = 0 THEN "invalid"
    ELSE IF Len(parts) >= 4 THEN "put"
    ELSE IF Len(parts) >= 3 THEN "get"
    ELSE "missing"

\* handle_client's match on the first line's words
Dispatch(parts) ==
    IF Len(parts) = 0 THEN "invalid"
    ELSE IF ToUpper(parts[1]) = "GET"
           THEN IF Len(parts) < 3 THEN "missing" ELSE "get"
    ELSE IF ToUpper(parts[1]) = "PUT"
           THEN IF Len(parts) < 4 THEN "missing" ELSE "put"
    ELSE "unknown"

SetConn(c, r) == conn' = [conn EXCEPT ![c] = r]

\* the file at a path of the server's directory
RFile(path) == IF path \in RPaths THEN rfs[path] ELSE NoFile

\* the accept loop takes the oldest connection waiting in the listener's
\* queue: the busy branch writes the line and drops the stream, the other
\* branch counts the connection and spawns its worker
XAccept(c) ==
    /\ conn[c].st = "pending"
    /\ \A d \in XConn : d < c => conn[d].st # "pending"
    /\ ~conn[c].rst
    /\ IF AdmissionFull(active)
         THEN /\ \E b \in ResetOnClose(SrvUnread(conn[c])) :
                    SetConn(c, [SrvPut(conn[c], <<LineU(ErrLine(ServerBusy))>>)
                                  EXCEPT !.st = "rejected", !.sclosed = TRUE,
                                         !.rst = @ \/ b])
              /\ active' = active
         ELSE /\ SetConn(c, [conn[c] EXCEPT !.st = "h_start"])
              /\ active' = active + 1
    /\ UNCHANGED <<rate, maxClients, gateVars, retryVars, fsVars, rfs0, lpath, probe, cl, runs, nconn>>

\* handle_get up to its loop: File::open, metadata, the OK line
HGetOpen(c, r, path, offset) ==
    LET f == RFile(path)
        r1 == [r EXCEPT !.cmd = "GET", !.path = path, !.offset = offset,
                        !.filesize = IF f.ex THEN Len(f.data) ELSE -1,
                        !.pos = offset, !.fsop = TRUE]
    IN /\ rfs' = rfs
       /\ IF ~f.ex
            THEN \E b \in ResetOnClose(SrvUnread(r1)) :
                   SetConn(c, SrvReplyRet(r1, ErrLine(FileError(NotFoundWords)), "ok", b))
          ELSE IF r1.rst \/ offset >= Len(f.data)
            THEN \E b \in ResetOnClose(SrvUnread(r1)) :
                   SetConn(c, SrvReplyRet(r1, GetReply(Len(f.data), offset), "ok", b))
          ELSE SetConn(c, [SrvPut(r1, <<LineU(GetReply(Len(f.data), offset))>>)
                             EXCEPT !.st = "h_get", !.tot = Len(f.data) - offset,
                                    !.cnt = 0])

\* `ro` is a directory of the server in which nothing can be created:
\* ro/d/f is a path whose parent ro/d does not exist and cannot be made,
\* ro/f one whose parent exists
NoParentPaths == {"ro/d/f"}

\* handle_put: `if !parent.exists() { create_dir_all(parent)?; }` succeeds
CreateParentOk(path) == path \notin NoParentPaths

\* handle_put up to its loop: the parent directory, OpenOptions write+create
\* (no truncate), seek, the OK line.  A path outside the directory's files
\* is one that does not open for writing.
HPutOpen(c, r, path, offset, total) ==
    LET r1 == [r EXCEPT !.cmd = "PUT", !.path = path, !.offset = offset,
                        !.pos = offset, !.tot = total, !.cnt = offset,
                        !.fsop = TRUE]
    IN IF ~CreateParentOk(path)
         THEN /\ rfs' = rfs
              /\ \E b \in ResetOnClose(SrvUnread(r1)) :
                   SetConn(c, SrvRet(r1, "err", b))
       ELSE IF path \notin RPaths
         THEN /\ rfs' = rfs
              /\ \E b \in ResetOnClose(SrvUnread(r1)) :
                   SetConn(c, SrvReplyRet(r1, ErrLine(FileError(NotFoundWords)), "ok", b))
         ELSE /\ rfs' = [rfs EXCEPT ![path] = IF @.ex THEN @ ELSE FileOf(<<>>)]
              /\ IF r1.rst
                   THEN \E b \in ResetOnClose(SrvUnread(r1)) :
                          SetConn(c, SrvRet(r1, "err", b))
                   ELSE SetConn(c, [SrvPut(r1, <<LineU(<<"OK">>)>>)
                                      EXCEPT !.st = "h_put_next"])

\* send_error(..)?; Ok(()) of handle_client's own branches
HReject(c, r, err) ==
    /\ rfs' = rfs
    /\ \E b \in ResetOnClose(SrvUnread(r)) :
         SetConn(c, SrvReplyRet(r, ErrLine(err), "ok", b))

\* handle_client: read_line, split_whitespace, the match on the verb
HStart(c) ==
    /\ conn[c].st = "h_start"
    /\ LET r == conn[c] IN
       \/ /\ SrvUnread(r)
          /\ LET parts == LineOf(r.c2s[r.srd + 1])
                 r1 == [r EXCEPT !.srd = @ + 1, !.got = "line", !.first = parts]
                 d == Dispatch(parts)
             IN CASE d = "invalid" -> HReject(c, r1, InvalidCommand)
                  [] d = "missing" -> HReject(c, r1, MissingArguments)
                  [] d = "unknown" -> HReject(c, r1, UnknownCommand)
                  [] d = "get" ->
                       HGetOpen(c, r1, parts[2], ParseNumOr0(parts[3]))
                  [] d = "put" ->
                       HPutOpen(c, r1, parts[2], ParseNumOr0(parts[3]),
                                ParseNumOr0(parts[4]))
       \/ \* bytes_read == 0: the peer closed without sending a line
          /\ ~SrvUnread(r) /\ r.cclosed
          /\ HReject(c, [r EXCEPT !.got = "eof"], InvalidCommand)
    /\ UNCHANGED <<srvVars, gateVars, retryVars, lfile, pfile, rfs0, lpath, probe, cl, runs, nconn>>

\* one turn of handle_get's loop: NEXT line, file.read, write_all
HGet(c) ==
    /\ conn[c].st = "h_get"
    /\ LET r == conn[c]
           chunk == calculate_chunk_size(active)
           to_read == Min(chunk, r.tot - r.cnt)
           data == RFile(r.path).data
           bytes == SubSeq(data, r.pos + 1, Min(Len(data), r.pos + to_read))
           r1 == SrvPut(r, <<LineU(<<"NEXT", FmtNum(chunk)>>)>>)
       IN IF r.cnt >= r.tot
            THEN \E b \in ResetOnClose(SrvUnread(r)) : SetConn(c, SrvRet(r, "ok", b))
          ELSE IF r.rst
            THEN \E b \in ResetOnClose(SrvUnread(r)) : SetConn(c, SrvRet(r, "err", b))
          ELSE IF Len(bytes) = 0
            THEN \E b \in ResetOnClose(SrvUnread(r)) : SetConn(c, SrvRet(r1, "ok", b))
          ELSE IF r1.rst
            THEN \E b \in ResetOnClose(SrvUnread(r)) : SetConn(c, SrvRet(r1, "err", b))
          ELSE SetConn(c, [SrvPut(r1, BytesU(bytes))
                             EXCEPT !.cnt = @ + Len(bytes), !.pos = @ + Len(bytes)])
    /\ UNCHANGED <<srvVars, gateVars, retryVars, fsVars, rfs0, lpath, probe, cl, runs, nconn>>

\* top of handle_put's loop: the loop test, calculate_chunk_size, NEXT line
HPutNext(c) ==
    /\ conn[c].st = "h_put_next"
    /\ LET r == conn[c]
           chunk == calculate_chunk_size(active)
       IN IF r.cnt >= r.tot
            THEN \E b \in ResetOnClose(SrvUnread(r)) : SetConn(c, SrvRet(r, "ok", b))
          ELSE IF r.rst
            THEN \E b \in ResetOnClose(SrvUnread(r)) : SetConn(c, SrvRet(r, "err", b))
          ELSE SetConn(c, [SrvPut(r, <<LineU(<<"NEXT", FmtNum(chunk)>>)>>)
                             EXCEPT !.st = "h_put_read", !.chunk = chunk])
    /\ UNCHANGED <<srvVars, gateVars, retryVars, fsVars, rfs0, lpath, probe, cl, runs, nconn>>

BytesToWriteAll(bytes_read, room) == bytes_read

\* handle_put: bytes_to_write = min(bytes_read, total_size - received)
BytesToWrite(bytes_read, room) == Min(bytes_read, room)

HPutReadRetry(c) ==
    /\ conn[c].st = "h_put_read"
    /\ SetConn(c, [conn[c] EXCEPT !.st = "h_put_next"])
    /\ UNCHANGED <<srvVars, gateVars, retryVars, fsVars, rfs0, lpath, probe, cl, runs, nconn>>

\* reader.read(&mut buffer) of handle_put, then write_all to the file: the
\* read returns between 1 and chunk_size of the bytes that have arrived, 0
\* at end-of-file, or fails on a reset connection
HPutRead(c) ==
    /\ conn[c].st = "h_put_read"
    /\ LET r == conn[c]
           avail == Len(r.c2s) - r.srd
       IN \/ \E k \in 1..Min(r.chunk, avail) :
               LET n == BytesToWrite(k, r.tot - r.cnt)
                   bytes == UnitsData(SubSeq(r.c2s, r.srd + 1, r.srd + n))
               IN /\ rfs' = [rfs EXCEPT ![r.path] =
                                FileOf(WriteAt(@.data, r.pos, bytes))]
                  /\ SetConn(c, [r EXCEPT !.st = "h_put_next", !.srd = @ + k,
                                          !.pos = @ + n, !.cnt = @ + n])
          \/ /\ avail = 0 /\ r.cclosed /\ ~r.rst
             /\ rfs' = rfs
             /\ \E b \in ResetOnClose(SrvUnread(r)) : SetConn(c, SrvRet(r, "ok", b))
          \/ /\ r.rst
             /\ rfs' = rfs
             /\ \E b \in ResetOnClose(SrvUnread(r)) : SetConn(c, SrvRet(r, "err", b))
    /\ UNCHANGED <<srvVars, gateVars, retryVars, lfile, pfile, rfs0, lpath, probe, cl, runs, nconn>>

\* ACTIVE_CLIENTS.fetch_sub(1) of the worker whose handle_client returned
HDecrement(c) ==
    /\ conn[c].st = "h_ret"
    /\ SetConn(c, [conn[c] EXCEPT !.st = "h_done"])
    /\ active' = active - 1
    /\ UNCHANGED <<rate, maxClients, gateVars, retryVars, fsVars, rfs0, lpath, probe, cl, runs, nconn>>

(***************************************************************************)
(* shared_lib/src/err_utils.rs: parse_server_response.                     *)
(***************************************************************************)
RespError(err) == [t |-> "Error", err |-> err, n |-> 0]
RespOk == [t |-> "Ok", err |-> InvalidCommand, n |-> 0]
RespNext(n) == [t |-> "Next", err |-> InvalidCommand, n |-> n]

\* the text after "ERR " against the four fixed messages
ParseErrStr(s) ==
    IF s = <<"Invalid", "command">> THEN InvalidCommand
    ELSE IF s = <<"Missing", "arguments">> THEN MissingArguments
    ELSE IF s = <<"Unknown", "command">> THEN UnknownCommand
    ELSE IF s = <<"Server", "is", "busy">> THEN ServerBusy
    ELSE Other(s)

\* every line that is not an ERR line taken as OK
parse_server_response_lenient(w) ==
    IF Len(w) >= 2 /\ w[1] = "ERR" THEN RespError(ParseErrStr(Tail(w)))
    ELSE RespOk

\* starts_with("ERR "), starts_with("OK"), starts_with("NEXT ") on the
\* trimmed line ("OK" is the one word of the model that begins with OK)
parse_server_response(w) ==
    IF Len(w) >= 2 /\ w[1] = "ERR" THEN RespError(ParseErrStr(Tail(w)))
    ELSE IF Len(w) >= 1 /\ w[1] = "OK" THEN RespOk
    ELSE IF Len(w) >= 2 /\ w[1] = "NEXT"
      THEN IF Len(w) = 2 /\ IsNum(w[2])
             THEN RespNext(NumOf(w[2]))
             ELSE RespError(Other(<<"Invalid", "NEXT", "command", "format">>))
    ELSE RespError(Other(<<"Invalid", "response">>))

\* parse_error: the whole line against four fixed lines, then
\* starts_with("ERR ") and the rest of the line, then the line itself
parse_error(w) ==
    IF w = <<"ERR", "Invalid", "command">> THEN InvalidCommand
    ELSE IF w = <<"ERR", "Missing", "arguments">> THEN MissingArguments
    ELSE IF w = <<"ERR", "Unknown", "command">> THEN UnknownCommand
    ELSE IF w = <<"ERR", "Server", "busy">> THEN ServerBusy
    ELSE IF Len(w) >= 2 /\ w[1] = "ERR" THEN FileError(Tail(w))
    ELSE Other(w)

Decoders == {"parse_server_response", "parse_error"}

\* the GetError a decoder makes of a line
Decoded(f, w) ==
    IF f = "parse_error" THEN parse_error(w) ELSE parse_server_response(w).err

\* the errors the server reports: the four fixed kinds, and file errors and
\* other errors with a text
Details == {<<"No", "such", "file">>, <<"Permission", "denied">>, <<"Server", "busy">>}
ReportedErrors ==
    {InvalidCommand, MissingArguments, UnknownCommand, ServerBusy}
      \cup {FileError(d) : d \in Details} \cup {Other(d) : d \in Details}

\* send_error(writer, err): the line ERR <err> is written
SendError ==
    /\ probe.line = <<>>
    /\ probe' = [probe EXCEPT !.line = ErrLine(probe.err)]
    /\ UNCHANGED <<srvVars, gateVars, retryVars, fsVars, rfs0, lpath, cl, runs,
                   nconn, conn>>

\* the line is given to a decoder
Decode(f) ==
    /\ probe.line # <<>>
    /\ Len(probe.calls) < MaxCalls
    /\ probe' = [probe EXCEPT !.calls =
                   Append(@, [f |-> f, err |-> Decoded(f, probe.line)])]
    /\ UNCHANGED <<srvVars, gateVars, retryVars, fsVars, rfs0, lpath, cl, runs,
                   nconn, conn>>

\* A remote path is the text after the first `:` of the remote argument
\* (split_host_path), here as its words: none for `host:`, two for
\* `host:my file`.
RemotePaths == {<<>>, <<"remote">>, <<"dir/f">>, <<"my", "file">>}

\* handle_client on the words of the request line: the verb, parts[1] as
\* the path, parts[2] and parts[3] parsed with unwrap_or(0)
parse_request(parts) ==
    LET d == Dispatch(parts)
    IN IF d \notin {"get", "put"}
         THEN [cmd |-> d, path |-> <<>>, offset |-> 0, total |-> 0]
         ELSE [ cmd |-> d,
                path |-> <<parts[2]>>,
                offset |-> ParseNumOr0(parts[3]),
                total |-> IF d = "put" THEN ParseNumOr0(parts[4]) ELSE 0 ]

\* writeln!(writer, "GET {} {}", remote_path, offset) and
\* writeln!(writer, "PUT {} {} {}", remote_path, offset, total_size)
FormatRequest(op, path, offset, total) ==
    IF op = "GET" THEN <<"GET">> \o path \o <<FmtNum(offset)>>
    ELSE <<"PUT">> \o path \o <<FmtNum(offset), FmtNum(total)>>

\* the client writes its request line
WriteRequest ==
    /\ probe.line = <<>>
    /\ probe' = [probe EXCEPT !.line =
                   FormatRequest(probe.op, probe.path, probe.offset, probe.total)]
    /\ UNCHANGED <<srvVars, gateVars, retryVars, fsVars, rfs0, lpath, cl, runs,
                   nconn, conn>>

\* handle_client reads the line and takes its command from it
ReadRequest ==
    /\ probe.line # <<>>
    /\ probe.parsed.cmd = "none"
    /\ probe' = [probe EXCEPT !.parsed = parse_request(probe.line)]
    /\ UNCHANGED <<srvVars, gateVars, retryVars, fsVars, rfs0, lpath, cl, runs,
                   nconn, conn>>

(***************************************************************************)
(* The client remcp (remcp/src/main.rs:33-314), one invocation at a time.  *)
(***************************************************************************)
Ops == {"PUT", "GET"}

IdleCl ==
    [ op |-> "none", pc |-> "idle", conn |-> 0, attempt |-> 0,
      off |-> 0, tot |-> 0, cnt |-> 0, chunk |-> 0, buf |-> <<>>,
      wrote |-> 0 ]

\* io::Error::new(ErrorKind::Other, format!("{}", err)) for a server error
ServerErr(err) ==
    Custom(CASE err.kind = "ServerBusy" -> "busy"
             [] err.kind = "Other" -> "server_other"
             [] OTHER -> "server_reject",
           Display(err))

ResetErr == OsError("reset", <<"Connection", "reset", "by", "peer">>, 104)
PipeErr == OsError("pipe", <<"Broken", "pipe">>, 32)

\* the stream is dropped
CliClose(r, b) == [r EXCEPT !.cclosed = TRUE, !.rst = @ \/ b]
CliUnread(r) == r.crd < Len(r.s2c)

\* what try_operation does with the attempt's result
Decide(isOk, e) ==
    LET d == TryDecide(isOk, e, cl.attempt)
    IN IF d = "retry"
         THEN /\ cl' = [IdleCl EXCEPT !.op = cl.op, !.pc = "sleep",
                                      !.attempt = cl.attempt,
                                      !.wrote = cl.wrote]
              /\ runs' = runs
         ELSE /\ cl' = IdleCl
              /\ runs' = Append(runs, [op |-> cl.op, res |-> d,
                                       err |-> IF isOk THEN NoErr ELSE e,
                                       wrote |-> cl.wrote])

\* do_get / do_put returns: the stream is dropped, try_operation decides
AttemptEnds(r, isOk, e) ==
    /\ \E b \in ResetOnClose(CliUnread(r)) : SetConn(cl.conn, CliClose(r, b))
    /\ Decide(isOk, e)

\* A local path is [dir, stem, ext]: the file <stem>.<ext> of the directory
\* dir, or the file <stem> when ext is NoExt (a name without a dot, or one
\* whose only dot is its first character).
NoExt == ""

\* Path::with_extension: the extension is replaced (set when there is none)
with_extension(p, e) == [p EXCEPT !.ext = e]

\* determine_offset_and_part_path: part_path
part_path(p) == with_extension(p, "part")

\* the partial path of a transfer is its local path itself: lfile[op] and
\* pfile[op] are then one file, and the model keeps them equal
SamePath(op) == part_path(lpath[op]) = lpath[op]

\* the file at the partial path becomes f
WritePart(op, f) ==
    /\ pfile' = [pfile EXCEPT ![op] = f]
    /\ lfile' = IF SamePath(op) THEN [lfile EXCEPT ![op] = f] ELSE lfile

\* fs::rename(&part_path, local_path): the partial file takes the place of
\* the local file; renaming a path onto itself changes nothing
rename(op) ==
    IF SamePath(op)
      THEN UNCHANGED <<lfile, pfile>>
      ELSE /\ lfile' = [lfile EXCEPT ![op] = pfile[op]]
           /\ pfile' = [pfile EXCEPT ![op] = NoFile]

determine_offset_zero(op) == 0

\* determine_offset_and_part_path: the length of the partial file, else 0
determine_offset(op) == IF pfile[op].ex THEN Len(pfile[op].data) ELSE 0

\* the request line: "GET {path} {offset}" / "PUT {path} {offset} {total}"
RequestLine(op, offset, total) ==
    IF op = "GET" THEN <<"GET", RemotePath, FmtNum(offset)>>
    ELSE <<"PUT", RemotePath, FmtNum(offset), FmtNum(total)>>

\* the code after the transfer loop: rename or remove the partial file, or
\* report the transfer incomplete
Finish(r) ==
    IF cl.cnt = cl.tot
      THEN /\ IF cl.op = "GET"
                THEN rename("GET")
                ELSE WritePart("PUT", NoFile)
           /\ AttemptEnds(r, TRUE, NoErr)
      ELSE /\ UNCHANGED <<lfile, pfile>>
           /\ AttemptEnds(r, FALSE,
                Custom("incomplete",
                       IF cl.op = "GET" THEN <<"Incomplete", "download">>
                       ELSE <<"Upload", "incomplete">>))

\* do_get: remaining_size = parts[1].parse().unwrap_or(0) of the OK line
RemainingSize(w) == ParseNumOr0(w[2])

OpenPartTruncating(f) == FileOf(<<>>)

ToReadAll(chunk_size, remaining) == remaining

\* do_get, do_put: to_read = min(chunk_size, remaining) for the chunk that a
\* NEXT line announces
ToRead(chunk_size, remaining) == Min(chunk_size, remaining)

WritePosNoSeek(offset, received) == received

\* do_get: file.seek(SeekFrom::Start(offset)) and then the write_all of each
\* chunk in turn: a chunk lands at offset + the bytes written before it
WritePos(offset, received) == offset + received

\* OpenOptions::new().write(true).create(true).open(&part_path): the file
\* as it is, or a new empty one
OpenPart(f) == IF f.ex THEN f ELSE FileOf(<<>>)

\* the user runs `remcp` for a PUT or a GET
CStart(op) ==
    /\ cl.pc = "idle"
    /\ Len(runs) < MaxRuns
    /\ cl' = [IdleCl EXCEPT !.op = op, !.pc = "begin"]
    /\ UNCHANGED <<srvVars, gateVars, retryVars, fsVars, rfs0, lpath, probe, runs, nconn, conn>>

\* an attempt up to its request: attempt += 1, the offset, (PUT) the size
\* of the local file, connect, the request line
CBegin ==
    /\ cl.pc = "begin"
    /\ LET offset == determine_offset(cl.op)
           total == Len(lfile["PUT"].data)
           c == nconn + 1
       IN IF cl.op = "PUT" /\ ~lfile["PUT"].ex
            THEN /\ LET cl1 == [cl EXCEPT !.attempt = @ + 1]
                        e == OsError("local_file",
                                     <<"No", "such", "file", "or", "directory">>, 2)
                        d == TryDecide(FALSE, e, cl1.attempt)
                    IN /\ cl' = IdleCl
                       /\ runs' = Append(runs, [op |-> cl.op, res |-> d, err |-> e,
                                                wrote |-> 0])
                 /\ UNCHANGED <<nconn, conn>>
            ELSE /\ nconn < MaxConn
                 /\ nconn' = c
                 /\ SetConn(c, [FreeConn EXCEPT
                        !.st = "pending",
                        !.c2s = <<LineU(RequestLine(cl.op, offset, total))>>])
                 /\ cl' = [cl EXCEPT !.attempt = @ + 1, !.pc = "resp", !.conn = c,
                                     !.off = offset,
                                     !.tot = IF cl.op = "PUT" THEN total ELSE 0,
                                     !.cnt = IF cl.op = "PUT" THEN offset ELSE 0]
                 /\ runs' = runs
    /\ UNCHANGED <<srvVars, gateVars, retryVars, fsVars, rfs0, lpath, probe>>

\* read_line of the first response and the match on it; on OK the partial
\* file is opened (created if absent)
CResp ==
    /\ cl.pc = "resp"
    /\ LET r == conn[cl.conn] IN
       \/ /\ CliUnread(r) \/ (r.sclosed /\ ~r.rst)
          /\ LET w == IF CliUnread(r) THEN LineOf(r.s2c[r.crd + 1]) ELSE <<>>
                 r1 == IF CliUnread(r) THEN [r EXCEPT !.crd = @ + 1] ELSE r
                 p == parse_server_response(w)
             IN IF p.t = "Error"
                  THEN /\ AttemptEnds(r1, FALSE, ServerErr(p.err))
                       /\ UNCHANGED <<lfile, pfile>>
                ELSE IF p.t = "Next"
                  THEN /\ AttemptEnds(r1, FALSE, Custom("protocol",
                            IF cl.op = "GET" THEN <<"Unexpected", "'NEXT'", "in", "GET">>
                            ELSE <<"Invalid", "server", "response">>))
                       /\ UNCHANGED <<lfile, pfile>>
                ELSE IF cl.op = "GET" /\ Len(w) < 2
                  THEN /\ AttemptEnds(r1, FALSE, Custom("protocol",
                            <<"Invalid", "server", "response", "format">>))
                       /\ UNCHANGED <<lfile, pfile>>
                ELSE IF cl.op = "GET" /\ RemainingSize(w) = 0
                  THEN /\ AttemptEnds(r1, TRUE, NoErr)
                       /\ UNCHANGED <<lfile, pfile>>
                ELSE /\ WritePart(cl.op, OpenPart(pfile[cl.op]))
                     /\ SetConn(cl.conn, r1)
                     /\ cl' = [cl EXCEPT !.pc = "loop",
                                 !.tot = IF cl.op = "GET" THEN RemainingSize(w) ELSE @]
                     /\ runs' = runs
       \/ /\ r.rst
          /\ AttemptEnds(r, FALSE, ResetErr)
          /\ UNCHANGED <<lfile, pfile>>
    /\ UNCHANGED <<srvVars, gateVars, retryVars, rfs, rfs0, lpath, probe, nconn>>

\* the loop test and read_line of the transfer loops, and the code after
\* the loop when it ends
CLoop ==
    /\ cl.pc = "loop"
    /\ LET r == conn[cl.conn] IN
       IF cl.cnt >= cl.tot
         THEN Finish(r)
         ELSE
           \/ /\ CliUnread(r)
              /\ LET w == LineOf(r.s2c[r.crd + 1])
                     r1 == [r EXCEPT !.crd = @ + 1]
                     p == parse_server_response(w)
                     to_read == ToRead(p.n, cl.tot - cl.cnt)
                     bytes == SubSeq(lfile["PUT"].data, cl.cnt + 1,
                                     Min(Len(lfile["PUT"].data), cl.cnt + to_read))
                 IN IF p.t = "Error"
                      THEN /\ AttemptEnds(r1, FALSE, ServerErr(p.err))
                           /\ UNCHANGED <<lfile, pfile>>
                    ELSE IF p.t = "Ok" \/ (cl.op = "PUT" /\ Len(bytes) = 0)
                      THEN Finish(r1)
                    ELSE /\ SetConn(cl.conn, r1)
                         /\ cl' = IF cl.op = "GET"
                                    THEN [cl EXCEPT !.pc = "data", !.chunk = to_read]
                                    ELSE [cl EXCEPT !.pc = "wsock", !.buf = bytes]
                         /\ UNCHANGED <<lfile, pfile, runs>>
           \/ /\ ~CliUnread(r) /\ r.sclosed /\ ~r.rst
              /\ AttemptEnds(r, FALSE,
                   Custom("protocol", <<"Server", "closed", "connection">>))
              /\ UNCHANGED <<lfile, pfile>>
           \/ /\ r.rst
              /\ AttemptEnds(r, FALSE, ResetErr)
              /\ UNCHANGED <<lfile, pfile>>
    /\ UNCHANGED <<srvVars, gateVars, retryVars, rfs, rfs0, lpath, probe, nconn>>

\* GET: read_exact of the chunk, then write_all to the partial file
CData ==
    /\ cl.pc = "data"
    /\ LET r == conn[cl.conn]
           avail == Len(r.s2c) - r.crd
       IN \/ /\ avail >= cl.chunk
             /\ LET bytes == UnitsData(SubSeq(r.s2c, r.crd + 1, r.crd + cl.chunk))
                IN WritePart("GET", FileOf(WriteAt(pfile["GET"].data,
                                                   WritePos(cl.off, cl.cnt), bytes)))
             /\ SetConn(cl.conn, [r EXCEPT !.crd = @ + cl.chunk])
             /\ cl' = [cl EXCEPT !.pc = "loop", !.cnt = @ + cl.chunk, !.chunk = 0]
             /\ runs' = runs
          \/ /\ avail < cl.chunk /\ r.sclosed /\ ~r.rst
             /\ AttemptEnds([r EXCEPT !.crd = Len(r.s2c)], FALSE,
                  Custom("protocol", <<"Connection", "lost">>))
             /\ UNCHANGED <<lfile, pfile>>
          \/ /\ r.rst
             /\ AttemptEnds(r, FALSE, ResetErr)
             /\ UNCHANGED <<lfile, pfile>>
    /\ UNCHANGED <<srvVars, gateVars, retryVars, rfs, rfs0, lpath, probe, nconn>>

\* PUT: writer.write_all(chunk); writer.flush()
CWSock ==
    /\ cl.pc = "wsock"
    /\ LET r == conn[cl.conn] IN
       IF r.rst
         THEN \E e \in {ResetErr, PipeErr} : AttemptEnds(r, FALSE, e)
         ELSE /\ SetConn(cl.conn, [r EXCEPT !.c2s = @ \o BytesU(cl.buf),
                                            !.rst = r.sclosed])
              /\ cl' = [cl EXCEPT !.pc = "wpart", !.wrote = @ + Len(cl.buf)]
              /\ runs' = runs
    /\ UNCHANGED <<srvVars, gateVars, retryVars, fsVars, rfs0, lpath, probe, nconn>>

\* PUT: part_file.write_all(chunk); part_file.flush(); sent += bytes_read
CWPart ==
    /\ cl.pc = "wpart"
    /\ WritePart("PUT", FileOf(WriteAt(pfile["PUT"].data, cl.cnt, cl.buf)))
    /\ cl' = [cl EXCEPT !.pc = "loop", !.cnt = @ + Len(cl.buf), !.buf = <<>>]
    /\ UNCHANGED <<srvVars, gateVars, retryVars, rfs, rfs0, lpath, probe, runs, nconn, conn>>

\* thread::sleep of the backoff, then the next attempt
CSleep ==
    /\ cl.pc = "sleep"
    /\ cl' = [cl EXCEPT !.pc = "begin"]
    /\ UNCHANGED <<srvVars, gateVars, retryVars, fsVars, rfs0, lpath, probe, runs, nconn, conn>>

\* the client process is killed: its socket, if open, is closed by the
\* system; nothing else of the invocation runs
Kill ==
    /\ cl.pc \notin {"idle"}
    /\ IF cl.conn # 0
         THEN \E b \in ResetOnClose(CliUnread(conn[cl.conn])) :
                SetConn(cl.conn, CliClose(conn[cl.conn], b))
         ELSE conn' = conn
    /\ runs' = Append(runs, [op |-> cl.op, res |-> "killed", err |-> NoErr,
                             wrote |-> cl.wrote])
    /\ cl' = IdleCl
    /\ UNCHANGED <<srvVars, gateVars, retryVars, fsVars, rfs0, lpath, probe, nconn>>

\* the network resets the connection in the middle of the client's transfer
\* (a transport fault: both ends find the connection reset at their next
\* operation)
NetReset ==
    /\ cl.pc \in {"loop", "data", "wsock", "wpart"}
    /\ ~conn[cl.conn].rst
    /\ SetConn(cl.conn, [conn[cl.conn] EXCEPT !.rst = TRUE])
    /\ UNCHANGED <<srvVars, gateVars, retryVars, fsVars, rfs0, lpath, probe, cl, runs, nconn>>

(***************************************************************************)
(* A peer that is not remcp: it connects and may send any first line, then *)
(* bytes, and closes when it likes.                                        *)
(***************************************************************************)
RawLines ==
    { <<>>, <<"foo">>, <<"DELETE", "remote">>,
      <<"GET">>, <<"GET", "remote">>, <<"get", "remote", "0">>,
      <<"GET", "remote", "0">>, <<"GET", "remote", "1">>,
      <<"GET", "remote", "2">>, <<"GET", "remote", "3">>,
      <<"GET", "remote", "x">>, <<"GET", "nosuch", "0">>,
      <<"PUT", "remote", "0">>, <<"PUT", "remote", "0", "2">>,
      <<"PUT", "remote", "1", "3">>, <<"PUT", "other", "2", "1">>,
      <<"PUT", "remote", "x", "2">>, <<"GET", "remote", "0", "extra">>,
      <<"PUT", "ro/f", "0", "1">>, <<"PUT", "ro/d/f", "0", "1">> }

RawOpen ==
    /\ nconn < MaxRaw
    /\ nconn' = nconn + 1
    /\ SetConn(nconn + 1, [FreeConn EXCEPT !.st = "pending"])
    /\ UNCHANGED <<srvVars, gateVars, retryVars, fsVars, rfs0, lpath, probe, cl, runs>>

\* the peer writes its first line
RawSend(c, line) ==
    /\ conn[c].st # "free" /\ ~conn[c].cclosed /\ ~conn[c].rst
    /\ conn[c].c2s = <<>>
    /\ SetConn(c, [conn[c] EXCEPT !.c2s = <<LineU(line)>>, !.rst = conn[c].sclosed])
    /\ UNCHANGED <<srvVars, gateVars, retryVars, fsVars, rfs0, lpath, probe, cl, runs, nconn>>

\* the peer writes one more byte after its line
RawData(c) ==
    /\ conn[c].st # "free" /\ ~conn[c].cclosed /\ ~conn[c].rst
    /\ Len(conn[c].c2s) \in 1..MaxFileLen
    /\ SetConn(c, [conn[c] EXCEPT !.c2s = Append(@, ByteU(7)),
                                  !.rst = conn[c].sclosed])
    /\ UNCHANGED <<srvVars, gateVars, retryVars, fsVars, rfs0, lpath, probe, cl, runs, nconn>>

\* the peer closes, having read all, some or none of what it was sent
RawClose(c) ==
    /\ conn[c].st # "free" /\ ~conn[c].cclosed
    /\ \E b \in ResetOnClose(Len(conn[c].s2c) > 0) :
         SetConn(c, CliClose(conn[c], b))
    /\ UNCHANGED <<srvVars, gateVars, retryVars, fsVars, rfs0, lpath, probe, cl, runs, nconn>>

\* another process of the server's host shortens the remote file to its
\* first n bytes
RemoteShrinks(n) ==
    /\ rfs[RemotePath].ex
    /\ n < Len(rfs[RemotePath].data)
    /\ rfs' = [rfs EXCEPT ![RemotePath] = FileOf(Prefix(@.data, n))]
    /\ UNCHANGED <<srvVars, gateVars, retryVars, lfile, pfile, rfs0, lpath, probe, cl, runs,
                   nconn, conn>>

(***************************************************************************)
(* A peer that is not remcp-serv: it takes the client's connection and may *)
(* answer with any lines and bytes, and closes when it likes.              *)
(***************************************************************************)
RespLines ==
    { <<>>, <<"foo">>, <<"OK">>, <<"OK", "x">>, <<"OK", "0">>, <<"OK", "1">>,
      <<"OK", "2">>, <<"NEXT">>, <<"NEXT", "x">>, <<"NEXT", "1">>,
      <<"ERR", "Server", "is", "busy">>, <<"ERR", "Unknown", "command">>,
      <<"ERR", "File", "error:", "No", "such", "file">> }

RespUnits == {LineU(l) : l \in RespLines} \cup {ByteU(7)}

\* what the peer sends after its first unit: a chunk announcement, a byte,
\* or an error line
LaterUnits ==
    {LineU(<<"NEXT", "1">>), ByteU(7), LineU(<<"ERR", "Unknown", "command">>)}

\* the peer writes a line or a byte to the client
PeerSend(u) ==
    /\ cl.conn # 0
    /\ LET r == conn[cl.conn] IN
         /\ ~r.sclosed /\ ~r.rst
         /\ Len(r.s2c) = 0 \/ u \in LaterUnits
         /\ Len(r.s2c) < MaxResp
         /\ Len(r.s2c) - r.crd < MaxUnread
         /\ SetConn(cl.conn, [r EXCEPT !.s2c = Append(@, u)])
    /\ UNCHANGED <<srvVars, gateVars, retryVars, fsVars, rfs0, lpath, probe, cl, runs, nconn>>

\* the peer closes the connection
PeerClose ==
    /\ cl.conn # 0
    /\ ~conn[cl.conn].sclosed
    /\ SetConn(cl.conn, [conn[cl.conn] EXCEPT !.sclosed = TRUE])
    /\ UNCHANGED <<srvVars, gateVars, retryVars, fsVars, rfs0, lpath, probe, cl, runs, nconn>>

(***************************************************************************)
(* determine_offset_and_part_path (remcp/src/main.rs:33-41) on its own:    *)
(* two local paths, the local files by path, and the calls made.           *)
(***************************************************************************)
\* a/x.bin, a/x.txt, a/x.part, a/x and the same names in b
LocalPaths ==
    { [dir |-> d, stem |-> "x", ext |-> e] :
        d \in {"a", "b"}, e \in {"bin", "txt", "part", NoExt} }

AllPaths == LocalPaths \cup {part_path(x) : x \in LocalPaths}

NoProbe == [p |-> "", q |-> "", fs |-> <<>>, calls |-> <<>>]

determine_offset_of_target(fs, local_path) ==
    [ offset |-> IF fs[local_path].ex THEN Len(fs[local_path].data) ELSE 0,
      part |-> part_path(local_path) ]

\* (offset, part_path): the partial path, and the metadata length of the
\* file there or 0 when the metadata call fails
determine_offset_and_part_path(fs, local_path) ==
    LET pp == part_path(local_path)
    IN [ offset |-> IF fs[pp].ex THEN Len(fs[pp].data) ELSE 0,
         part |-> pp ]

\* a transfer of the path probe[w] calls the function
Locate(w) ==
    /\ Len(probe.calls) < MaxCalls
    /\ probe' = [probe EXCEPT !.calls =
                   Append(@, [ path |-> probe[w],
                               seen |-> probe.fs[part_path(probe[w])],
                               ret |-> determine_offset_and_part_path(
                                         probe.fs, probe[w]) ])]
    /\ UNCHANGED <<srvVars, gateVars, retryVars, fsVars, rfs0, lpath, cl, runs,
                   nconn, conn>>

\* a transfer of the path probe[w] writes a chunk of a byte at the end of
\* its partial file (created if absent)
PartGrows(w) ==
    /\ LET pp == part_path(probe[w])
       IN /\ Len(probe.fs[pp].data) < MaxFileLen
          /\ probe' = [probe EXCEPT !.fs[pp] = FileOf(Append(@.data, 5))]
    /\ UNCHANGED <<srvVars, gateVars, retryVars, fsVars, rfs0, lpath, cl, runs,
                   nconn, conn>>

(***************************************************************************)
(* Specifications.                                                         *)
(***************************************************************************)
\* two local paths, and at the partial path of the first no file or one of
\* 0..2 bytes
InitPath ==
    /\ rate = 256 /\ maxClients = 5 /\ active = 0
    /\ GateIdle
    /\ RetryIdle
    /\ lpath = [o \in Ops |-> [dir |-> ".", stem |-> "", ext |-> NoExt]]
    /\ lfile = [o \in Ops |-> NoFile]
    /\ pfile = [o \in Ops |-> NoFile]
    /\ rfs = [x \in RPaths |-> NoFile]
    /\ rfs0 = rfs
    /\ cl = IdleCl
    /\ runs = <<>>
    /\ nconn = 0
    /\ conn = [c \in XConn |-> FreeConn]
    /\ \E p \in LocalPaths, q \in LocalPaths,
          f \in {NoFile} \cup {FileOf(Prefix(Content, n)) : n \in 0..2} :
         probe = [ p |-> p, q |-> q,
                   fs |-> [x \in AllPaths |-> IF x = part_path(p) THEN f ELSE NoFile],
                   calls |-> <<>> ]

\* a server with some transfer rate, the handler followed being its one
\* active client
InitRate ==
    /\ rate \in Rates /\ maxClients = 3 /\ active = 1
    /\ GateIdle
    /\ RetryIdle
    /\ lpath = [o \in Ops |-> [dir |-> ".", stem |-> "", ext |-> NoExt]]
    /\ lfile = [o \in Ops |-> NoFile]
    /\ pfile = [o \in Ops |-> NoFile]
    /\ rfs = [x \in RPaths |-> NoFile]
    /\ rfs0 = rfs
    /\ cl = IdleCl
    /\ runs = <<>>
    /\ nconn = 0
    /\ conn = [c \in XConn |-> FreeConn]
    /\ probe = [b |-> 0, calls |-> <<>>]

NextRate ==
    \/ ClientConnected
    \/ ClientDisconnected
    \/ \E b \in ChunkBytes \cup {calculate_chunk_size(active)} : TransferChunk(b)
    \/ RateLimit

\* one handler's chunks and delays while other clients come and go
SpecRate == InitRate /\ [][NextRate]_vars

\* a request the client is about to send: a GET from an offset, or a PUT
\* from an offset of a file of some size
InitFrame ==
    /\ rate = 256 /\ maxClients = 5 /\ active = 0
    /\ GateIdle
    /\ RetryIdle
    /\ lpath = [o \in Ops |-> [dir |-> ".", stem |-> "", ext |-> NoExt]]
    /\ lfile = [o \in Ops |-> NoFile]
    /\ pfile = [o \in Ops |-> NoFile]
    /\ rfs = [x \in RPaths |-> NoFile]
    /\ rfs0 = rfs
    /\ cl = IdleCl
    /\ runs = <<>>
    /\ nconn = 0
    /\ conn = [c \in XConn |-> FreeConn]
    /\ \E op \in Ops, path \in RemotePaths, offset \in 0..MaxFileLen,
          total \in 0..MaxFileLen :
         /\ op = "GET" => total = 0
         /\ probe = [ op |-> op, path |-> path, offset |-> offset,
                      total |-> total, line |-> <<>>,
                      parsed |-> [cmd |-> "none", path |-> <<>>, offset |-> 0,
                                  total |-> 0] ]

NextFrame ==
    \/ WriteRequest
    \/ ReadRequest

\* a request line is written by the client and parsed by the server
SpecFrame == InitFrame /\ [][NextFrame]_vars

\* an error the server is about to report
InitDecode ==
    /\ rate = 256 /\ maxClients = 5 /\ active = 0
    /\ GateIdle
    /\ RetryIdle
    /\ lpath = [o \in Ops |-> [dir |-> ".", stem |-> "", ext |-> NoExt]]
    /\ lfile = [o \in Ops |-> NoFile]
    /\ pfile = [o \in Ops |-> NoFile]
    /\ rfs = [x \in RPaths |-> NoFile]
    /\ rfs0 = rfs
    /\ cl = IdleCl
    /\ runs = <<>>
    /\ nconn = 0
    /\ conn = [c \in XConn |-> FreeConn]
    /\ \E e \in ReportedErrors : probe = [err |-> e, line |-> <<>>, calls |-> <<>>]

NextDecode ==
    \/ SendError
    \/ \E f \in Decoders : Decode(f)

\* an error is written as a line and the line decoded
SpecDecode == InitDecode /\ [][NextDecode]_vars

NextPath ==
    \/ \E w \in {"p", "q"} : Locate(w)
    \/ \E w \in {"p", "q"} : PartGrows(w)

\* calls of determine_offset_and_part_path for two local paths, between
\* writes to their partial files
SpecPath == InitPath /\ [][NextPath]_vars

\* the local paths given on the command line: a PUT of src.<e1>, a GET into
\* dst.<e2>
PathsOf(e1, e2) ==
    [o \in Ops |-> IF o = "PUT" THEN [dir |-> ".", stem |-> "src", ext |-> e1]
                   ELSE [dir |-> ".", stem |-> "dst", ext |-> e2]]

\* a PUT of src.bin, a GET into dst.bin
PlainPaths == PathsOf("bin", "bin")

XferIdle ==
    /\ lpath = PlainPaths
    /\ probe = NoProbe
    /\ lfile = [o \in Ops |-> NoFile]
    /\ pfile = [o \in Ops |-> NoFile]
    /\ rfs = [p \in RPaths |-> NoFile]
    /\ rfs0 = [p \in RPaths |-> NoFile]
    /\ cl = IdleCl
    /\ runs = <<>>
    /\ nconn = 0
    /\ conn = [c \in XConn |-> FreeConn]

\* the rates and limits the transfer model starts the server with
XConfigs == { [rate |-> 3, max |-> 1], [rate |-> 2, max |-> 2] }

\* the local file of the PUT: absent, or 0..MaxFileLen bytes
SrcFiles == {NoFile} \cup {FileOf(Prefix(Content, n)) : n \in 0..MaxFileLen}

InitXfer ==
    /\ \E cfg \in XConfigs : rate = cfg.rate /\ maxClients = cfg.max
    /\ active = 0
    /\ GateIdle
    /\ RetryIdle
    /\ lpath = PlainPaths
    /\ probe = NoProbe
    /\ \E f \in SrcFiles : lfile = [o \in Ops |-> IF o = "PUT" THEN f ELSE NoFile]
    /\ pfile = [o \in Ops |-> NoFile]
    /\ \E g \in {NoFile, FileOf(OldContent)} :
         /\ rfs = [p \in RPaths |-> IF p = RemotePath THEN g ELSE NoFile]
         /\ rfs0 = [p \in RPaths |-> IF p = RemotePath THEN g ELSE NoFile]
    /\ cl = IdleCl
    /\ runs = <<>>
    /\ nconn = 0
    /\ conn = [c \in XConn |-> FreeConn]

NextXfer ==
    \/ \E op \in Ops : CStart(op)
    \/ CBegin
    \/ CResp
    \/ CLoop
    \/ CData
    \/ CWSock
    \/ CWPart
    \/ CSleep
    \/ Kill
    \/ \E c \in XConn : XAccept(c)
    \/ \E c \in XConn : HStart(c)
    \/ \E c \in XConn : HGet(c)
    \/ \E c \in XConn : HPutNext(c)
    \/ \E c \in XConn : HPutRead(c)
    \/ \E c \in XConn : HDecrement(c)

\* remcp run up to MaxRuns times against the server
SpecXfer == InitXfer /\ [][NextXfer]_vars

\* one server setting, a 3-byte local file and a 3-byte remote file
InitFault ==
    /\ rate = 2 /\ maxClients = 2 /\ active = 0
    /\ GateIdle
    /\ RetryIdle
    /\ lpath = PlainPaths
    /\ probe = NoProbe
    /\ lfile = [o \in Ops |-> IF o = "PUT" THEN FileOf(Prefix(Content, 3)) ELSE NoFile]
    /\ pfile = [o \in Ops |-> NoFile]
    /\ rfs = [p \in RPaths |-> IF p = RemotePath THEN FileOf(OldContent) ELSE NoFile]
    /\ rfs0 = [p \in RPaths |-> IF p = RemotePath THEN FileOf(OldContent) ELSE NoFile]
    /\ cl = IdleCl
    /\ runs = <<>>
    /\ nconn = 0
    /\ conn = [c \in XConn |-> FreeConn]

\* the one invocation of remcp that SpecFault follows
CStartOnce(op) == runs = <<>> /\ CStart(op)

NextFault ==
    \/ NetReset
    \/ \E op \in Ops : CStartOnce(op)
    \/ CBegin
    \/ CResp
    \/ CLoop
    \/ CData
    \/ CWSock
    \/ CWPart
    \/ CSleep
    \/ \E c \in XConn : XAccept(c)
    \/ \E c \in XConn : HStart(c)
    \/ \E c \in XConn : HGet(c)
    \/ \E c \in XConn : HPutNext(c)
    \/ \E c \in XConn : HPutRead(c)
    \/ \E c \in XConn : HDecrement(c)

\* one run of remcp against the server on a network that may reset a
\* transfer; the client is not killed
SpecFault == InitFault /\ [][NextFault]_vars

\* the GET is into dst.part, the PUT is of src.bin or of src.part: where the
\* extension is `part` the partial path of the transfer is its local path
\* (the 3-byte local file of the PUT is then also its partial file)
InitPart ==
    /\ \E cfg \in XConfigs : rate = cfg.rate /\ maxClients = cfg.max
    /\ active = 0
    /\ GateIdle
    /\ RetryIdle
    /\ \E e \in {"bin", "part"} : lpath = PathsOf(e, "part")
    /\ probe = NoProbe
    /\ lfile = [o \in Ops |-> IF o = "PUT" THEN FileOf(Prefix(Content, 3)) ELSE NoFile]
    /\ pfile = [o \in Ops |-> IF SamePath(o) THEN lfile[o] ELSE NoFile]
    /\ rfs = [p \in RPaths |-> IF p = RemotePath THEN FileOf(OldContent) ELSE NoFile]
    /\ rfs0 = rfs
    /\ cl = IdleCl
    /\ runs = <<>>
    /\ nconn = 0
    /\ conn = [c \in XConn |-> FreeConn]

\* remcp run up to MaxRuns times with local paths that end in `.part`
SpecPart == InitPart /\ [][NextXfer]_vars

\* the local file of the PUT holds 1 or 2 bytes; its partial file is absent
\* or holds 3 bytes (the local file was replaced by a shorter one after an
\* upload was interrupted)
InitStale ==
    /\ \E cfg \in XConfigs : rate = cfg.rate /\ maxClients = cfg.max
    /\ active = 0
    /\ GateIdle
    /\ RetryIdle
    /\ lpath = PlainPaths
    /\ probe = NoProbe
    /\ \E n \in 1..2 :
         lfile = [o \in Ops |-> IF o = "PUT" THEN FileOf(Prefix(Content, n)) ELSE NoFile]
    /\ \E f \in {NoFile, FileOf(Prefix(Content, 3))} :
         pfile = [o \in Ops |-> IF o = "PUT" THEN f ELSE NoFile]
    /\ \E g \in {NoFile, FileOf(OldContent)} :
         rfs = [p \in RPaths |-> IF p = RemotePath THEN g ELSE NoFile]
    /\ rfs0 = rfs
    /\ cl = IdleCl
    /\ runs = <<>>
    /\ nconn = 0
    /\ conn = [c \in XConn |-> FreeConn]

\* remcp run up to MaxRuns times, with or without a partial file longer
\* than the file to upload
SpecStale == InitStale /\ [][NextXfer]_vars

\* a remote file of 3 bytes, nothing local
InitShrink ==
    /\ \E cfg \in XConfigs : rate = cfg.rate /\ maxClients = cfg.max
    /\ active = 0
    /\ GateIdle
    /\ RetryIdle
    /\ lpath = PlainPaths
    /\ probe = NoProbe
    /\ lfile = [o \in Ops |-> NoFile]
    /\ pfile = [o \in Ops |-> NoFile]
    /\ rfs = [p \in RPaths |-> IF p = RemotePath THEN FileOf(OldContent) ELSE NoFile]
    /\ rfs0 = rfs
    /\ cl = IdleCl
    /\ runs = <<>>
    /\ nconn = 0
    /\ conn = [c \in XConn |-> FreeConn]

NextShrink ==
    \/ \E n \in 0..MaxFileLen : RemoteShrinks(n)
    \/ \E op \in {"GET"} : CStart(op)
    \/ CBegin
    \/ CResp
    \/ CLoop
    \/ CData
    \/ Kill
    \/ \E c \in XConn : XAccept(c)
    \/ \E c \in XConn : HStart(c)
    \/ \E c \in XConn : HGet(c)
    \/ \E c \in XConn : HDecrement(c)

\* GETs of a remote file that is shortened while it is served
SpecShrink == InitShrink /\ [][NextShrink]_vars

\* a 2-byte local file for the PUT; for the GET no partial file or one of a
\* byte
InitResp ==
    /\ rate = 2 /\ maxClients = 2 /\ active = 0
    /\ GateIdle
    /\ RetryIdle
    /\ lpath = PlainPaths
    /\ probe = NoProbe
    /\ lfile = [o \in Ops |-> IF o = "PUT" THEN FileOf(Prefix(Content, 2)) ELSE NoFile]
    /\ \E f \in {NoFile, FileOf(<<9>>)} :
         pfile = [o \in Ops |-> IF o = "GET" THEN f ELSE NoFile]
    /\ rfs = [p \in RPaths |-> NoFile]
    /\ rfs0 = rfs
    /\ cl = IdleCl
    /\ runs = <<>>
    /\ nconn = 0
    /\ conn = [c \in XConn |-> FreeConn]

NextResp ==
    \/ \E op \in Ops : CStartOnce(op)
    \/ CBegin
    \/ CResp
    \/ CLoop
    \/ CData
    \/ CWSock
    \/ CWPart
    \/ CSleep
    \/ \E u \in RespUnits : PeerSend(u)
    \/ PeerClose

\* one run of remcp against a peer that answers anything
SpecResp == InitResp /\ [][NextResp]_vars

InitRaw ==
    /\ \E cfg \in XConfigs : rate = cfg.rate /\ maxClients = cfg.max
    /\ active = 0
    /\ GateIdle
    /\ RetryIdle
    /\ lpath = PlainPaths
    /\ probe = NoProbe
    /\ lfile = [o \in Ops |-> NoFile]
    /\ pfile = [o \in Ops |-> NoFile]
    /\ \E g \in {NoFile, FileOf(<<>>), FileOf(Prefix(Content, 2))} :
         /\ rfs = [p \in RPaths |-> IF p = RemotePath THEN g ELSE NoFile]
         /\ rfs0 = [p \in RPaths |-> IF p = RemotePath THEN g ELSE NoFile]
    /\ cl = IdleCl
    /\ runs = <<>>
    /\ nconn = 0
    /\ conn = [c \in XConn |-> FreeConn]

NextRaw ==
    \/ RawOpen
    \/ \E c \in XConn : \E line \in RawLines : RawSend(c, line)
    \/ \E c \in XConn : RawData(c)
    \/ \E c \in XConn : RawClose(c)
    \/ \E c \in XConn : XAccept(c)
    \/ \E c \in XConn : HStart(c)
    \/ \E c \in XConn : HGet(c)
    \/ \E c \in XConn : HPutNext(c)
    \/ \E c \in XConn : HPutRead(c)
    \/ \E c \in XConn : HDecrement(c)

\* the server against arbitrary peers
SpecRaw == InitRaw /\ [][NextRaw]_vars

\* the local file of the PUT exists where the client runs (InitResp) and
\* does not where the server is followed (InitRaw)
ClientSide == lfile["PUT"].ex

InitEither == InitResp \/ InitRaw

NextEither ==
    \/ ClientSide /\ NextResp
    \/ ~ClientSide /\ NextRaw

\* either end against a peer that sends anything: remcp against a peer
\* that answers anything, or the server against arbitrary peers
SpecEither == InitEither /\ [][NextEither]_vars

\* the accept loop and every worker thread that can take a step is
\* scheduled in the end
ServerFair ==
    /\ \A c \in XConn : WF_vars(XAccept(c))
    /\ \A c \in XConn : WF_vars(HStart(c))
    /\ \A c \in XConn : WF_vars(HGet(c))
    /\ \A c \in XConn : WF_vars(HPutNext(c))
    /\ \A c \in XConn : WF_vars(HPutRead(c))
    /\ \A c \in XConn : WF_vars(HDecrement(c))

\* the server against arbitrary peers, its threads scheduled fairly
SpecRawFair == SpecRaw /\ ServerFair

Init == InitSrv /\ InitGate /\ RetryIdle /\ XferIdle

Next ==
    \/ Accept
    \/ Reject
    \/ Admit
    \/ Spawn
    \/ \E c \in GConn : HandlerNext(c)
    \/ \E c \in GConn : \E res \in {"ok", "err"} : HandlerReturn(c, res)
    \/ \E c \in GConn : Decrement(c)

\* the server: one accept loop, one worker thread per admitted connection
Spec == Init /\ [][Next]_vars

NextPause ==
    \/ Accept
    \/ Reject
    \/ Admit
    \/ Spawn
    \/ \E c \in GConn : HandlerSleep(c)
    \/ \E c \in GConn : HandlerBlock(c)
    \/ \E c \in GConn : HandlerResume(c)
    \/ \E c \in GConn : \E res \in {"ok", "err"} : HandlerReturnRunnable(c, res)
    \/ \E c \in GConn : Decrement(c)

\* a server of 3 bytes/s that admits up to 2 or up to 3 clients
InitPause ==
    /\ rate = 3 /\ maxClients \in {2, 3} /\ active = 0
    /\ InitGate /\ RetryIdle /\ XferIdle

\* the server, its workers pausing in rate_limit's sleep and in their I/O
SpecPause == InitPause /\ [][NextPause]_vars

InitRetry ==
    /\ rate = 256 /\ maxClients = 5 /\ active = 0
    /\ GateIdle
    /\ InitTry
    /\ XferIdle

NextRetry ==
    \/ TryBegin
    \/ \E o \in OpOutcomes : TryOpReturn(o)
    \/ TrySleep

\* one call of try_operation, its operation returning any outcome
SpecRetry == InitRetry /\ [][NextRetry]_vars

\* the same, when every attempt returns and every sleep ends
SpecRetryFair == SpecRetry /\ WF_vars(NextRetry)

(***************************************************************************)
(* Claims about the admission gate, checked under Spec.                    *)
(***************************************************************************)

\* C1: in every reachable state of the server ACTIVE_CLIENTS is at least 0
\* and at most MAX_CLIENTS, whatever the interleaving of the accept loop
\* and the workers' completions.
C1_ActiveWithinLimit == 0 <= active /\ active <= maxClients

\* the counter is at the limit after workers have come and gone
C1_Witness ==
    /\ maxClients = 5
    /\ active = maxClients
    /\ \E c \in GConn : gst[c] = "done"

\* C2: a connection accepted while the loaded ACTIVE_CLIENTS is at or above
\* MAX_CLIENTS is sent exactly the line `ERR Server is busy` (nothing at
\* all if that write fails, which ends main), gets no worker (so nothing
\* runs that could touch a file: it is never counted, never run, never
\* returns), and the step that rejects it leaves ACTIVE_CLIENTS unchanged.
C2_RejectedGetsBusyOnly ==
    /\ [](\A c \in GConn : grej[c] =>
            /\ gst[c] = "rejected"
            /\ ginc[c] = 0 /\ gdec[c] = 0 /\ gres[c] = "none"
            /\ gout[c] = IF gpc = "down" /\ gconn = c
                           THEN <<>>
                           ELSE << <<"ERR", "Server", "is", "busy">> >>)
    /\ [](\A c \in GConn : ~grej[c] => gout[c] = <<>>)
    /\ [][ /\ (gpc = "check" /\ gcur >= maxClients /\ gpc' # "check")
                => (grej'[gconn] /\ active' = active)
           /\ \A c \in GConn : (~grej[c] /\ grej'[c])
                => (gpc = "check" /\ c = gconn /\ gcur >= maxClients) ]_vars

\* a connection was rejected with the busy line while workers were running
C2_Witness ==
    \E c \in GConn :
        /\ grej[c]
        /\ gout[c] = << <<"ERR", "Server", "is", "busy">> >>
        /\ active = maxClients /\ maxClients > 0
        /\ gpc = "accept"

\* C3: an admitted connection is counted exactly once from its admission
\* to the end of handle_client and exactly once uncounted after it, whether
\* handle_client returned Ok or Err; when no admitted connection is left
\* the counter is back at 0 (no slot leaks).
C3_OneIncOneDec ==
    /\ \A c \in GConn :
        /\ gst[c] \in {"new", "rejected"} => (ginc[c] = 0 /\ gdec[c] = 0)
        /\ gst[c] \in {"admitted", "running", "returned"}
             => (ginc[c] = 1 /\ gdec[c] = 0)
        /\ gst[c] = "done" => (ginc[c] = 1 /\ gdec[c] = 1)
    /\ (\A c \in GConn : gst[c] \in {"new", "rejected", "done"}) => active = 0

\* a worker whose handle_client returned Err has released its slot
C3_Witness ==
    \E c \in GConn : gst[c] = "done" /\ gres[c] = "err" /\ gdec[c] = 1

\* C7: every chunk size announced in a NEXT line is max(1, R / max(1, N)),
\* truncating, N being the active count the worker loaded and R the
\* nominal rate (R = 256, N = 5 gives 51).
C7_FairChunk ==
    gnext.any => gnext.n = Max(1, rate \div Max(1, gnext.act))

\* the documented example: 256 bytes/s shared by 5 active connections
C7_Witness == gnext.any /\ rate = 256 /\ gnext.act = 5 /\ gnext.n = 51

\* C11: no failure confined to one connection ends the accept loop: after a
\* handler returned Err, and after the busy line could not be written to a
\* rejected connection, the listener still accepts (main has not returned)
\* and the workers of the other connections still run.
C11_ListenerSurvives == gpc # "down"

\* C36: ACTIVE_CLIENTS always equals the number of admitted connections
\* whose worker has not yet executed its decrement; a rejected connection
\* is never counted and no connection is counted twice.
C36_ActiveCountsAdmitted ==
    /\ active = Cardinality({c \in GConn :
                                gst[c] \in {"admitted", "running", "returned"}})
    /\ active = Cardinality({c \in GConn : ginc[c] > gdec[c]})
    /\ \A c \in GConn : ginc[c] <= 1 /\ (grej[c] => ginc[c] = 0)

\* two connections are counted, one has been uncounted and one rejected
C36_Witness ==
    /\ active = 2
    /\ \E c \in GConn : gst[c] = "done"
    /\ \E c \in GConn : gst[c] = "rejected"

\* C35: every NEXT line a worker sends announces a chunk of at least one
\* byte, for any configured rate (0 included) and any interleaving of
\* connects and disconnects, the worker being counted in ACTIVE_CLIENTS
\* when it computes the chunk.
C35_NextAtLeastOne == gnext.any => (gnext.n >= 1 /\ gnext.act >= 1)

\* a NEXT line of a server whose rate is 0
C35_Witness == gnext.any /\ rate = 0 /\ gnext.n = 1

(***************************************************************************)
(* Claims about paused workers, checked under SpecPause.                   *)
(***************************************************************************)
Paused(c) == gst[c] \in {"sleeping", "blocked"}

\* the live accept loop can take its next step (when connections are left
\* in the model to accept)
AcceptLoopCanStep ==
    /\ (gpc = "accept" /\ gconn < NConn) => ENABLED Accept
    /\ gpc = "check" => ENABLED (Reject \/ Admit)
    /\ gpc = "spawn" => ENABLED Spawn

\* the worker of d can take its next step, if it is not itself paused
WorkerCanStep(d) ==
    /\ gst[d] = "running"
         => /\ ENABLED HandlerSleep(d)
            /\ ENABLED HandlerBlock(d)
            /\ ENABLED HandlerReturnRunnable(d, "ok")
    /\ gst[d] = "returned" => ENABLED Decrement(d)

\* C31: while the worker of one connection is in its rate-limit sleep, or
\* blocked in its own socket or file I/O, every other admitted worker and
\* the accept loop can take their next step.
C31_PauseBlocksNoOther ==
    \A c \in GConn :
        (Paused(c) /\ gpc # "down")
        => /\ AcceptLoopCanStep
           /\ \A d \in GConn \ {c} : WorkerCanStep(d)

\* one worker sleeps, another is blocked and a third runs
C31_Witness ==
    \E c, d, e \in GConn :
        gst[c] = "sleeping" /\ gst[d] = "blocked" /\ gst[e] = "running"

(***************************************************************************)
(* Claims about try_operation, checked under SpecRetry.                    *)
(***************************************************************************)
AllBusy == \A i \in 1..Len(touts) : touts[i].err.class = "busy"

\* C9: if every attempt is answered with `ERR Server is busy`,
\* try_operation makes exactly 5 attempts, sleeps the fixed backoff once
\* between consecutive attempts (4 times, never after the last) and then
\* returns the busy error.
C9_BusyRetry ==
    AllBusy =>
      /\ Len(touts) <= 5 /\ tattempt <= 5
      /\ \A i \in 1..Len(tsleeps) : tsleeps[i] = 5
      /\ tpc = "op" => (Len(touts) = tattempt - 1 /\ Len(tsleeps) = tattempt - 1)
      /\ tpc = "sleep" => (Len(touts) = tattempt /\ Len(tsleeps) = tattempt - 1)
      /\ tpc = "start" => (Len(touts) = tattempt /\ Len(tsleeps) = tattempt)
      /\ tpc = "done" =>
           /\ Len(touts) = 5 /\ tattempt = 5
           /\ Len(tsleeps) = 4
           /\ tres = "err"
           /\ touts[5].err.msg = <<"Server", "is", "busy">>

\* five busy answers in a row, and try_operation has returned
C9_Witness == AllBusy /\ Len(touts) = 5 /\ tpc = "done" /\ tres = "err"

\* C10: another attempt follows a failed one only if its error was the busy
\* answer or a connection reset / connection timed out; any other failure
\* is the last attempt and is what try_operation returns, with no backoff
\* after it.
C10_RetryOnlyBusyOrTransport ==
    \A i \in 1..Len(touts) :
        /\ i < Len(touts) =>
             (~touts[i].ok /\ touts[i].err.class \in {"busy", "reset", "timeout"})
        /\ (~touts[i].ok /\ touts[i].err.class \notin {"busy", "reset", "timeout"}) =>
             /\ i = Len(touts)
             /\ tpc = "done" /\ tres = "err"
             /\ tattempt = i /\ Len(tsleeps) = i - 1

\* after two retried attempts a local file error ended the call at once
C10_Witness ==
    /\ Len(touts) = 3
    /\ touts[1].err.class = "busy" /\ touts[2].err.class = "reset"
    /\ touts[3].err.class = "local_file"
    /\ tpc = "done" /\ tres = "err"

\* C25: whatever the attempts end with, in any mix, try_operation makes at
\* most MAX_RETRIES attempts: the one counter `attempt` counts every call of
\* the operation, retried for busy or for a transport error alike, the
\* fifth attempt's outcome ends the call, and the call does end.
C25_AtMostMaxRetries ==
    /\ [](/\ tattempt <= MAX_RETRIES
          /\ Len(touts) <= MAX_RETRIES
          /\ tattempt = Len(touts) + (IF tpc = "op" THEN 1 ELSE 0)
          /\ Len(touts) = MAX_RETRIES => (tpc = "done" /\ tres # "none"))
    /\ <>(tpc = "done")

\* busy, reset, busy, timeout, reset: the fifth outcome ended the call
C25_Witness ==
    /\ Len(touts) = 5 /\ tpc = "done" /\ tres = "err"
    /\ touts[1].err.class = "busy" /\ touts[2].err.class = "reset"
    /\ touts[3].err.class = "busy" /\ touts[4].err.class = "timeout"
    /\ touts[4].err.os = 110 /\ touts[5].err.class = "reset"

(***************************************************************************)
(* Claims about the handler's replies, checked under SpecRaw.              *)
(***************************************************************************)
Returned(r) == r.st \in {"h_ret", "h_done"} /\ r.sclosed

\* C6: a GET whose file opened and whose offset is at or beyond the file's
\* size is answered with the one line `OK 0` and nothing else (no NEXT, no
\* bytes, no ERR), and the handler returns.
C6_GetBeyondEnd ==
    \A c \in XConn :
        (conn[c].cmd = "GET" /\ conn[c].filesize >= 0
           /\ conn[c].offset >= conn[c].filesize)
        => /\ conn[c].s2c = << LineU(<<"OK", "0">>) >>
           /\ Returned(conn[c]) /\ conn[c].res = "ok"

\* a GET at offset 3 of a 2-byte file, and one at offset 2, were answered
C6_Witness ==
    \E c \in XConn :
        /\ conn[c].cmd = "GET" /\ conn[c].filesize = 2
        /\ conn[c].first = <<"GET", "remote", "3">>
        /\ conn[c].s2c = << LineU(<<"OK", "0">>) >>
        /\ conn[c].st = "h_done"

\* the payload bytes among the units of s, in their order
PayloadOf(s) == UnitsData(SelectSeq(s, LAMBDA u : u.t = "byte"))

\* a GET whose file opened, at an offset inside the file, the file being
\* what it was at the start
GetInsideFile(r) ==
    /\ r.cmd = "GET" /\ r.filesize > r.offset
    /\ rfs[r.path] = rfs0[r.path]

ZeroRead(r) ==
    /\ r.st = "h_put_read" /\ r.cnt < r.tot
    /\ r.srd = Len(r.c2s) /\ r.cclosed /\ ~r.rst

\* C24: a read of zero bytes in handle_put before totalSize bytes were
\* received ends the handler at once: it returns (Ok), sends no NEXT or any
\* other line then or later, and leaves the target file with the bytes
\* written so far; the worker then gives its admission slot back
\* (ACTIVE_CLIENTS is decremented once), and it does.
C24_ZeroReadEndsPut ==
    /\ [][ \A c \in XConn :
             /\ (ZeroRead(conn[c]) /\ conn'[c] # conn[c])
                  => /\ conn'[c].st = "h_ret" /\ conn'[c].res = "ok"
                     /\ conn'[c].sclosed
                     /\ conn'[c].s2c = conn[c].s2c
                     /\ rfs' = rfs
             /\ conn[c].st = "h_ret"
                  => /\ conn'[c].s2c = conn[c].s2c
                     /\ conn'[c].st \in {"h_ret", "h_done"}
                     /\ conn'[c].st = "h_done" => active' = active - 1
             /\ conn[c].st = "h_done"
                  => (conn'[c].s2c = conn[c].s2c /\ conn'[c].st = "h_done") ]_vars
    /\ \A c \in XConn : ZeroRead(conn[c]) ~> (conn[c].st = "h_done")

\* a PUT of 2 bytes got 1 byte and then end-of-file: the byte is in the
\* file, two NEXT lines were sent, the worker is done
C24_Witness ==
    \E c \in XConn :
        /\ conn[c].first = <<"PUT", "remote", "0", "2">>
        /\ conn[c].st = "h_done" /\ conn[c].res = "ok"
        /\ conn[c].cnt = 1
        /\ Len(rfs[RemotePath].data) >= 1 /\ rfs[RemotePath].data[1] = 7
        /\ active = 0

\* the first line is empty or absent, or its verb (matched without regard
\* to case, as the handler does) is neither GET nor PUT
NoVerb(r) == r.got = "eof" \/ (r.got = "line" /\ Len(r.first) = 0)
OtherVerb(r) ==
    r.got = "line" /\ Len(r.first) > 0 /\ ToUpper(r.first[1]) \notin {"GET", "PUT"}

\* C8: a connection whose first line is empty or absent gets exactly the
\* line `ERR Invalid command`, one whose first line has another verb than
\* GET or PUT gets exactly `ERR Unknown command`; the handler then returns
\* and the connection is closed, and the handler has opened or created no
\* file: while every connection served is of this kind the server's files
\* are what they were at the start.
C8_MalformedCommand ==
    /\ \A c \in XConn :
         (NoVerb(conn[c]) \/ OtherVerb(conn[c]))
         => /\ conn[c].s2c =
                 << LineU(IF NoVerb(conn[c])
                            THEN <<"ERR", "Invalid", "command">>
                            ELSE <<"ERR", "Unknown", "command">>) >>
            /\ Returned(conn[c])
            /\ ~conn[c].fsop
    /\ (\A c \in XConn : conn[c].got # "none"
            => (NoVerb(conn[c]) \/ OtherVerb(conn[c])))
       => rfs = rfs0

\* an unknown verb with an argument was answered and the worker is done
C8_Witness ==
    \E c \in XConn :
        /\ conn[c].first = <<"DELETE", "remote">>
        /\ conn[c].s2c = << LineU(<<"ERR", "Unknown", "command">>) >>
        /\ conn[c].st = "h_done"
        /\ rfs[RemotePath].ex

\* the first line is a GET that has not exactly a path and a numeric offset,
\* or a PUT that has not exactly a path, a numeric offset and a numeric size
WrongArgs(r) ==
    /\ r.got = "line" /\ Len(r.first) > 0
    /\ \/ /\ ToUpper(r.first[1]) = "GET"
          /\ (Len(r.first) # 3 \/ ~IsNum(r.first[3]))
       \/ /\ ToUpper(r.first[1]) = "PUT"
          /\ (Len(r.first) # 4 \/ ~IsNum(r.first[3]) \/ ~IsNum(r.first[4]))

\* the handler could not open the GET target, or could not create or open
\* the PUT target
OpenFailed(r) ==
    \/ r.cmd = "GET" /\ r.fsop /\ r.filesize = -1
    \/ r.cmd = "PUT" /\ r.fsop /\ r.path \notin RPaths

\* C19: a connection whose GET target could not be opened, or whose PUT
\* target could not be created or opened (its parent directory included),
\* gets exactly one line, `ERR File error: ...`, and so no OK and no NEXT;
\* the handler returns and the connection is closed.
C19_OpenFailureGetsFileError ==
    \A c \in XConn :
        OpenFailed(conn[c])
        => /\ Len(conn[c].s2c) = 1
           /\ conn[c].s2c[1].t = "line"
           /\ SubSeq(conn[c].s2c[1].w, 1, 3) = <<"ERR", "File", "error:">>
           /\ Returned(conn[c])

\* C18: a connection whose GET or PUT line has the wrong number of
\* arguments, or an offset or size that is not a number, gets exactly one
\* line, an ERR line; the handler returns, the connection is closed, and the
\* handler has opened, created or written no file.
C18_WrongArgsRejected ==
    \A c \in XConn :
        WrongArgs(conn[c])
        => /\ Len(conn[c].s2c) = 1
           /\ conn[c].s2c[1].t = "line"
           /\ conn[c].s2c[1].w[1] = "ERR"
           /\ Returned(conn[c])
           /\ ~conn[c].fsop

(***************************************************************************)
(* Claims about whole transfers, checked under SpecXfer.                   *)
(***************************************************************************)
\* no worker is running and no connection waits to be accepted
Quiescent == \A c \in XConn : conn[c].st \in {"free", "rejected", "h_done"}

RunIs(i, op, res) == Len(runs) >= i /\ runs[i].op = op /\ runs[i].res = res

\* C4: after a PUT of the local file F that succeeded and then a GET of the
\* same remote path that succeeded, the GET's local file exists and holds
\* exactly the bytes of F, the empty F included.
C4_RoundTrip ==
    (Len(runs) = 2 /\ RunIs(1, "PUT", "ok") /\ RunIs(2, "GET", "ok") /\ Quiescent)
    => lfile["GET"] = lfile["PUT"]

\* C5: starting with no remote file, when the first PUT is killed having
\* written k payload bytes the marker (the partial file; absent counts as
\* empty) has length k; the PUT run again then writes exactly |F| - k
\* payload bytes, and once it has succeeded and the server is done the
\* remote file equals F.
C5_PutResume ==
    (RunIs(1, "PUT", "killed") /\ ~rfs0[RemotePath].ex /\ lfile["PUT"].ex)
    => /\ (Len(runs) = 1 /\ cl.pc = "idle")
            => determine_offset("PUT") = runs[1].wrote
       /\ (Len(runs) = 2 /\ RunIs(2, "PUT", "ok"))
            => /\ runs[2].wrote = Len(lfile["PUT"].data) - runs[1].wrote
               /\ Quiescent => rfs[RemotePath] = lfile["PUT"]

\* C12: with a remote file that no PUT changes, when a GET was killed (at
\* any point) and the same GET run again has ended in success, the local
\* file exists and holds exactly the bytes of the remote file.
C12_GetResumeCompletes ==
    (Len(runs) = 2 /\ RunIs(1, "GET", "killed") /\ RunIs(2, "GET", "ok")
       /\ rfs0[RemotePath].ex)
    => lfile["GET"] = rfs[RemotePath]

\* the first invocation was a PUT, it has succeeded (from offset 0: there
\* was no partial file), nothing else was run and the server is done
FirstPutCompleted ==
    Len(runs) = 1 /\ RunIs(1, "PUT", "ok") /\ cl.pc = "idle" /\ Quiescent

\* C33: after a completed PUT of the file F from offset 0 the remote file's
\* content equals F exactly, whatever was at the remote path before the PUT
\* (a longer file included).
C33_PutReplacesRemote ==
    FirstPutCompleted => rfs[RemotePath] = lfile["PUT"]

\* the connection of the first invocation's last attempt, once that
\* invocation has ended in success and before another connects
PutSucceededOn(c) ==
    /\ Len(runs) >= 1 /\ RunIs(1, "PUT", "ok")
    /\ c = nconn /\ c >= 1
    /\ Len(runs) = 1 /\ cl.conn = 0

\* the worker of connection c has returned from handle_client
WorkerEnded(c) == conn[c].st \in {"h_ret", "h_done"}

\* C32: when a PUT attempt of the client has returned success, the worker
\* of its connection has written or goes on to write all bytes up to the
\* total size to the target file: it never ends with fewer received, also
\* when its socket reads return fewer bytes than the client sent per turn.
C32_PutSuccessMeansStored ==
    \A c \in XConn :
        (PutSucceededOn(c) /\ WorkerEnded(c))
        => /\ conn[c].cmd = "PUT" /\ conn[c].cnt = conn[c].tot
           /\ conn[c].res = "ok"

\* the invocation that ended last, while no other has started
LastRun == runs[Len(runs)]
JustEnded(op, res) ==
    cl.pc = "idle" /\ Len(runs) > 0 /\ LastRun.op = op /\ LastRun.res = res

\* C14: when a GET or a PUT has returned success, no partial file of its
\* target is on disk, and after a GET the final local file exists.
C14_SuccessLeavesOnlyFinal ==
    /\ JustEnded("PUT", "ok") => ~pfile["PUT"].ex
    /\ JustEnded("GET", "ok") => (~pfile["GET"].ex /\ lfile["GET"].ex)

\* the payload bytes the client has read from a connection
ReceivedBytes(r) == Cardinality({i \in 1..r.crd : r.s2c[i].t = "byte"})

\* C15: the GET's final local file is written, and the partial file leaves
\* its path, only by the rename of the partial file, and only in a step
\* taken when the payload bytes read on the attempt's connection are as
\* many as the count of the server's `OK <n>` line.
C15_RenameOnlyWhenComplete ==
    [][ (lfile'["GET"] # lfile["GET"] \/ (pfile["GET"].ex /\ ~pfile'["GET"].ex))
        => /\ cl.op = "GET" /\ cl.conn # 0
           /\ LET r == conn[cl.conn]
              IN /\ Len(r.s2c) >= 1 /\ r.s2c[1].t = "line"
                 /\ Len(r.s2c[1].w) = 2 /\ r.s2c[1].w[1] = "OK"
                 /\ IsNum(r.s2c[1].w[2])
                 /\ ReceivedBytes(r) = NumOf(r.s2c[1].w[2])
           /\ lfile'["GET"] = pfile["GET"]
           /\ ~pfile'["GET"].ex ]_vars

\* the offset field of the request line sent on connection r
OffsetSent(r) == NumOf(r.c2s[1].w[3])

\* only GETs have been run, so the remote file is what it was at the start
OnlyGets ==
    /\ \A i \in 1..Len(runs) : runs[i].op = "GET"
    /\ cl.op \in {"GET", "none"}

\* C20: while only GETs are run (killed, retried or completed) and the
\* remote file therefore stays as it was, the partial file of the GET, when
\* there is one, holds a prefix of the remote file; and during an attempt,
\* from the opening of the partial file on, its length is the offset the
\* attempt resumed at plus the payload bytes of the chunks received whole
\* on the attempt's connection.
C20_PartialIsPrefix ==
    (OnlyGets /\ pfile["GET"].ex)
    => /\ rfs = rfs0
       /\ pfile["GET"].data =
            Prefix(rfs[RemotePath].data, Len(pfile["GET"].data))
       /\ cl.pc \in {"loop", "data"}
            => Len(pfile["GET"].data) =
                 OffsetSent(conn[cl.conn]) + ReceivedBytes(conn[cl.conn])

\* a GET that resumed at offset 2 has received its chunk: the partial file
\* holds the whole remote file
C20_Witness ==
    /\ OnlyGets /\ cl.op = "GET" /\ cl.pc = "loop"
    /\ OffsetSent(conn[cl.conn]) = 2
    /\ ReceivedBytes(conn[cl.conn]) = 1
    /\ pfile["GET"].data = OldContent

\* the sizes announced by the NEXT lines among the first k units of s
RECURSIVE SumNext(_, _)
SumNext(s, k) ==
    IF k = 0 THEN 0
    ELSE SumNext(s, k - 1) +
         (IF s[k].t = "line" /\ Len(s[k].w) = 2 /\ s[k].w[1] = "NEXT"
            THEN NumOf(s[k].w[2]) ELSE 0)

\* the NEXT lines among the units of s
NextCount(s) ==
    Cardinality({i \in 1..Len(s) : s[i].t = "line" /\ Len(s[i].w) = 2
                                    /\ s[i].w[1] = "NEXT"})

\* the payload bytes among the units of s
PayloadCount(s) == Cardinality({i \in 1..Len(s) : s[i].t = "byte"})

BytesAfterLastLine(r) ==
    Cardinality({i \in 1..Len(r.s2c) :
                   /\ r.s2c[i].t = "byte"
                   /\ \A j \in i..Len(r.s2c) : r.s2c[j].t = "byte"})

\* C21: in a GET, a turn of the server's loop that writes `NEXT <n>` and
\* payload writes exactly min(n, bytes still to send) payload bytes after
\* the line; what the client takes as the payload of a turn are payload
\* bytes only, and what it reads as a line is a line.
C21_ChunkFraming ==
    [][ /\ \A c \in XConn :
             (conn[c].st = "h_get" /\ conn'[c].st = "h_get"
                /\ Len(conn'[c].s2c) > Len(conn[c].s2c))
             => BytesAfterLastLine(conn'[c]) =
                  Min(calculate_chunk_size(active), conn[c].tot - conn[c].cnt)
        /\ (cl.op = "GET" /\ cl.pc = "data" /\ cl'.pc = "loop")
             => \A i \in (conn[cl.conn].crd + 1)..conn'[cl.conn].crd :
                  conn[cl.conn].s2c[i].t = "byte"
        /\ (cl.op = "GET" /\ cl.pc \in {"resp", "loop"} /\ cl.conn # 0
                /\ conn'[cl.conn].crd = conn[cl.conn].crd + 1)
             => conn[cl.conn].s2c[conn'[cl.conn].crd].t = "line" ]_vars

(***************************************************************************)
(* Claims about the client's handling of what it is answered, checked      *)
(* under SpecResp.                                                         *)
(***************************************************************************)
\* a first response that is an ERR other than busy, a NEXT line, or an OK
\* with no count or with a count that is not a number
BadFirstResponse(w) ==
    /\ Len(w) >= 1
    /\ \/ w[1] = "ERR" /\ Len(w) >= 2 /\ Tail(w) # <<"Server", "is", "busy">>
       \/ w[1] = "NEXT" /\ Len(w) >= 2
       \/ w[1] = "OK" /\ (Len(w) < 2 \/ ~IsNum(w[2]))

\* the client reads the first response of a GET attempt, and it is w
ReadsFirst(w) ==
    /\ cl.op = "GET" /\ cl.pc = "resp" /\ cl'.pc # "resp"
    /\ conn[cl.conn].crd < Len(conn[cl.conn].s2c)
    /\ w = LineOf(conn[cl.conn].s2c[conn[cl.conn].crd + 1])

\* C17: when the first response to a GET is an ERR other than busy, a NEXT
\* line, or an OK with no count or with a count that is not a number, the
\* attempt fails and the invocation ends in that failure: it is not
\* reported as success and it is not retried.
C17_BadFirstResponseFails ==
    [][ \A w \in RespLines :
          (ReadsFirst(w) /\ BadFirstResponse(w))
          => /\ cl'.pc = "idle"
             /\ Len(runs') = Len(runs) + 1
             /\ runs'[Len(runs')].res = "fail" ]_vars

\* the first response line the client's read_line returns in this step: the
\* next unit of the stream, or the empty line at end-of-file
FirstResponse ==
    LET r == conn[cl.conn]
    IN IF r.crd < Len(r.s2c) THEN LineOf(r.s2c[r.crd + 1]) ELSE <<>>

\* the line does not begin with OK
NotOk(w) == Len(w) = 0 \/ w[1] # "OK"

\* C38: an attempt whose first response is not an OK (busy, another ERR, a
\* NEXT line, an empty or an unrecognised line) creates, modifies and
\* deletes no local file: from the start of the attempt to its end the
\* local file and the partial file of both transfers stay as they were.
C38_RefusedAttemptTouchesNoFile ==
    [][ /\ cl.pc = "begin" => (lfile' = lfile /\ pfile' = pfile)
        /\ (cl.pc = "resp" /\ cl'.pc # "resp" /\ NotOk(FirstResponse))
             => (lfile' = lfile /\ pfile' = pfile) ]_vars

\* a GET whose partial file held a byte was answered with a NEXT line first
\* and has failed; the partial file is as it was and there is no final file
C38_Witness ==
    /\ Len(runs) = 1 /\ runs[1].op = "GET" /\ runs[1].res = "fail"
    /\ conn[1].s2c # <<>> /\ conn[1].s2c[1] = LineU(<<"NEXT", "1">>)
    /\ pfile["GET"] = FileOf(<<9>>) /\ ~lfile["GET"].ex

(***************************************************************************)
(* Claims about attempts that fail and are retried, checked under          *)
(* SpecFault.                                                              *)
(***************************************************************************)
\* the step ends an attempt of the running invocation in an error (retried
\* or not), or ends the invocation in success
EndsInError ==
    /\ cl.pc \notin {"idle", "sleep"}
    /\ \/ cl'.pc = "sleep"
       \/ Len(runs') = Len(runs) + 1 /\ runs'[Len(runs')].res = "fail"
EndsInSuccess == Len(runs') = Len(runs) + 1 /\ runs'[Len(runs')].res = "ok"

\* f's bytes are all still there in g, at their places
Keeps(f, g) ==
    /\ g.ex
    /\ Len(g.data) >= Len(f.data)
    /\ SubSeq(g.data, 1, Len(f.data)) = f.data

\* C13: a step that ends a GET or PUT attempt in an error leaves the
\* partial file, if it exists, exactly as it is; and every step other than
\* the successful end of a transfer keeps an existing partial file on disk
\* with all the bytes it had (it is only ever appended to).
C13_PartialKeptOnError ==
    [][ /\ (EndsInError /\ pfile[cl.op].ex) => pfile'[cl.op] = pfile[cl.op]
        /\ ~EndsInSuccess =>
             \A op \in Ops : pfile[op].ex => Keeps(pfile[op], pfile'[op]) ]_vars

\* an attempt was reset after bytes had reached the partial file, and the
\* next attempt is due
C13_Witness ==
    /\ cl.pc = "sleep"
    /\ pfile[cl.op].ex /\ Len(pfile[cl.op].data) > 0

\* C16: every attempt of an invocation, the first and each retry, sends as
\* its offset the byte length the partial file has at that moment (0 when
\* there is none), and no attempt sends a smaller offset than an earlier
\* attempt of the same invocation did.  (SpecFault follows one invocation:
\* every connection is one of its attempts.)
C16_OffsetIsPartialLength ==
    [][ (cl.pc = "begin" /\ nconn' = nconn + 1)
        => /\ OffsetSent(conn'[nconn']) =
                (IF pfile[cl.op].ex THEN Len(pfile[cl.op].data) ELSE 0)
           /\ \A c \in 1..nconn :
                OffsetSent(conn[c]) <= OffsetSent(conn'[nconn']) ]_vars

\* a second attempt has sent an offset above zero
C16_Witness ==
    /\ cl.attempt = 2 /\ cl.pc = "resp"
    /\ OffsetSent(conn[cl.conn]) > 0

(***************************************************************************)
(* Claims about determine_offset_and_part_path, checked under SpecPath.    *)
(***************************************************************************)
Calls == 1..Len(probe.calls)

\* the length a file has, 0 when there is none
LengthOf(f) == IF f.ex THEN Len(f.data) ELSE 0

\* C26: determine_offset_and_part_path is read-only and deterministic: a
\* call changes no file; two calls for the same local path that found the
\* same partial file return the same (offset, partial path); and the offset
\* of every call is the byte length of the partial file it found, 0 when
\* there was none.
C26_LocateDeterministic ==
    /\ [][ Len(probe'.calls) > Len(probe.calls) => probe'.fs = probe.fs ]_vars
    /\ [](\A i \in Calls :
            /\ probe.calls[i].ret.offset = LengthOf(probe.calls[i].seen)
            /\ \A j \in Calls :
                 (/\ probe.calls[i].path = probe.calls[j].path
                  /\ probe.calls[i].seen = probe.calls[j].seen)
                 => probe.calls[i].ret = probe.calls[j].ret)

\* two calls for a/x.part returned offset 1 one after the other, and a third,
\* after a write to the partial file, returned 2
C26_Witness ==
    /\ Len(probe.calls) = 3
    /\ \A i \in Calls : probe.calls[i].path = [dir |-> "a", stem |-> "x", ext |-> "part"]
    /\ probe.calls[1].ret.offset = 1
    /\ probe.calls[2].ret = probe.calls[1].ret
    /\ probe.calls[3].ret.offset = 2

\* C27: for every local target path, the partial path returned is in the
\* directory of the target and is not the target path itself, also when the
\* target's own extension is "part".
C27_PartialPathDiffers ==
    \A i \in Calls :
        /\ probe.calls[i].ret.part.dir = probe.calls[i].path.dir
        /\ probe.calls[i].ret.part # probe.calls[i].path

\* C28: two transfers with different local target paths never resolve to the
\* same partial path.
C28_PartialPathExclusive ==
    \A i \in Calls : \A j \in Calls :
        probe.calls[i].path # probe.calls[j].path
        => probe.calls[i].ret.part # probe.calls[j].ret.part

(***************************************************************************)
(* Claims about the response decoders, checked under SpecDecode.           *)
(***************************************************************************)
FixedKinds == {"InvalidCommand", "MissingArguments", "UnknownCommand", "ServerBusy"}

\* C29: an error of one of the four fixed kinds, written by the server as
\* ERR <message>, is decoded by parse_server_response and by parse_error to
\* the same kind; any other ERR message is decoded to a free-form error
\* (a file error or an other error) carrying that message.
C29_ErrRoundTrip ==
    \A i \in Calls :
        IF probe.err.kind \in FixedKinds
          THEN probe.calls[i].err = probe.err
          ELSE /\ probe.calls[i].err.kind \in {"FileError", "Other"}
               /\ probe.calls[i].err.detail = Tail(probe.line)

(***************************************************************************)
(* Claims about the rate controller's delay, checked under SpecRate.       *)
(***************************************************************************)
\* C30: the delay after a chunk of b bytes is b * 1000 / perClientRate
\* milliseconds, truncated, with perClientRate =
\* max(1, R / max(1, activeClients)) taken with the active count at the
\* time of the delay, whatever b, R and the active count are.
C30_DelayFormula ==
    /\ [](\A i \in Calls :
            probe.calls[i].delay =
                (probe.calls[i].b * 1000)
                    \div Max(1, rate \div Max(1, probe.calls[i].act)))
    /\ [][ Len(probe'.calls) > Len(probe.calls)
           => probe'.calls[Len(probe'.calls)].act = active ]_vars

\* a chunk of 7 bytes was sent when the handler had the whole rate of 7 B/s,
\* and was delayed with three clients active: 7000 / 2 = 3500 ms
C30_Witness ==
    \E i \in Calls :
        /\ rate = 7
        /\ probe.calls[i].b = 7
        /\ probe.calls[i].act = 3
        /\ probe.calls[i].delay = 3500

(***************************************************************************)
(* Claims about the request line, checked under SpecFrame.                 *)
(***************************************************************************)
\* C39: for every remote path, offset and total size the client can send,
\* what the server parses from the client's GET or PUT line is the same
\* command, path, offset and total size, also for a path that contains
\* whitespace and for the empty path.
C39_RequestRoundTrip ==
    probe.parsed.cmd # "none"
    => /\ probe.parsed.cmd = (IF probe.op = "GET" THEN "get" ELSE "put")
       /\ probe.parsed.path = probe.path
       /\ probe.parsed.offset = probe.offset
       /\ probe.parsed.total = probe.total

StaleMarker ==
    /\ pfile["PUT"].ex /\ lfile["PUT"].ex
    /\ Len(pfile["PUT"].data) > Len(lfile["PUT"].data)

\* the step ends a PUT attempt that the server had accepted with OK
AcceptedPutEnds == cl.op = "PUT" /\ cl.pc = "loop" /\ cl' # cl

\* C34: a PUT attempt that starts with a resume offset greater than the
\* size of the local file sends no payload and leaves the marker as it is;
\* once the server has accepted it, it ends in the error `Upload
\* incomplete`, which is not retried (unless the client is killed first);
\* the marker staying as it is, no later invocation succeeds either.
C34_StaleMarkerPutFails ==
    /\ [](StaleMarker
           => /\ cl.wrote = 0
              /\ \A i \in 1..Len(runs) :
                   runs[i].op = "PUT" => (runs[i].wrote = 0 /\ runs[i].res # "ok")
              /\ \A c \in XConn :
                   \A i \in 1..Len(conn[c].c2s) : conn[c].c2s[i].t = "line")
    /\ [][ StaleMarker
           => /\ pfile'["PUT"] = pfile["PUT"] /\ lfile'["PUT"] = lfile["PUT"]
              /\ AcceptedPutEnds
                   => /\ cl'.pc = "idle" /\ Len(runs') = Len(runs) + 1
                      /\ \/ runs'[Len(runs')].res = "killed"
                         \/ /\ runs'[Len(runs')].res = "fail"
                            /\ runs'[Len(runs')].err.class = "incomplete" ]_vars

\* two invocations of the PUT have each ended in `Upload incomplete`
C34_Witness ==
    /\ StaleMarker
    /\ Len(runs) = 2
    /\ \A i \in 1..2 : /\ runs[i].op = "PUT" /\ runs[i].res = "fail"
                       /\ runs[i].err.class = "incomplete"

====
